---------------------------- MODULE Spec2Model ----------------------------
(***************************************************************************)
(* The Space Invaders game of frontend/src/game.ts (class                  *)
(* SpaceInvadersGame) as a state machine.                                  *)
(*                                                                         *)
(* Lengths.  The invader grid starts at x = (800 - 11*55)/2 = 97.5, so the *)
(* coordinates of the program are multiples of one half.  Every length of  *)
(* the model (x, y, widths, heights, speeds) is held in HALF PIXELS:       *)
(* PX(n) is the model's value of the program's length n.  The program      *)
(* constants themselves are written as in the source (CANVAS_WIDTH == 800).*)
(*                                                                         *)
(* Left out: stars and particles (lines 124-132, 241-256, 395-408), which  *)
(* only feed render(), and render() itself; nothing the game logic reads.  *)
(***************************************************************************)
EXTENDS Integers, Sequences, FiniteSets

\* ------------------------------------------------------------ constants
CANVAS_WIDTH    == 800
CANVAS_HEIGHT   == 600
SHIP_WIDTH      == 50
SHIP_HEIGHT     == 30
INVADER_WIDTH   == 40
INVADER_HEIGHT  == 30
INVADER_ROWS    == 5
INVADER_COLS    == 11
INVADER_PADDING == 15
BULLET_WIDTH    == 6
BULLET_HEIGHT   == 15

SHIP_SPEED          == 8    \* processInput: const speed = 8
PLAYER_BULLET_CAP   == 3    \* shoot: playerBullets.length >= 3
PLAYER_BULLET_SPEED == 12   \* update: bullet.y += isPlayer ? -12 : 6
ENEMY_BULLET_SPEED  == 6
SWEEP_PERIOD        == 25   \* update: tick % 25 === 0
ANIM_PERIOD         == 15   \* update: tick % 15 === 0
FIRE_PERIOD         == 50   \* update: tick % 50 === 0
SWEEP_STEP          == 15   \* moveInvaders: invaderDirection * 15
DESCEND_STEP        == 25   \* moveInvaders: invader.y += 25
INVASION_MARGIN     == 30   \* moveInvaders: invader.y >= ship.y - 30
GRID_TOP            == 60   \* createInitialState: y: 60 + row * ...
SHIP_BOTTOM_GAP     == 20   \* createInitialState: CANVAS_HEIGHT - SHIP_HEIGHT - 20
INITIAL_LIVES       == 3    \* createInitialState: lives: 3

\* The model's value (half pixels) of the program's length n (pixels).
PX(n) == 2 * n

Max(a, b) == IF a >= b THEN a ELSE b
Min(a, b) == IF a <= b THEN a ELSE b

\* ------------------------------------------------------------ bounds
MaxLoops == 2     \* pending gameLoop callbacks the model lets start() pile up
MaxTick  == 2     \* updates explored under the free steering/shooting scripts
Moves    == 100   \* number of consecutive one-way moves claim C2 speaks of
ShotCap  == 5     \* number up to which shoot() calls between two updates are counted
VolleyEnd == 76   \* updates explored under the volley script
MaxLedger == 2    \* entries the ledger is let grow to
MaxPending == 1   \* transactions of this client the network holds at a time
MaxBoard == 12    \* entries the crowd of the leaderboard specification submits
MaxCalls == 2     \* ensureWalletFunded() calls in progress at a time
MaxTime  == 1     \* value the chain's timestamp source is let grow to
RandomEnd == 50   \* updates explored under the random script

\* ------------------------------------------------------------ state
VARIABLES
    state,      \* this.state: the GameState record
    keys,       \* this.keys: the keys currently held
    loops,      \* number of gameLoop callbacks pending in requestAnimationFrame
    script,     \* the environment (player, frame clock, Math.random) being explored
    shots,      \* probe: shoot() calls since the last update() (capped)
    hits,       \* probe: <<bullet index, invader index>> hits of the last update()
    overCalls,  \* probe: the won arguments of the onGameOver calls since start()
    animationId, \* this.animationId: "null", or the handle of a callback that is
                \* "pending" or of one that has "run"
    registry,   \* on chain: the player registry, registered address -> username
    ledger,     \* on chain: the leaderboard ledger, a sequence of entries
    now,        \* on chain: the timestamp source
    pending,    \* transactions this client has sent that the chain has not applied yet
    client,     \* this client's page: username, submit button, submit handler
    board,      \* probe: what loadLeaderboard fetched and rendered in the last step
    lastCall,   \* probe: the contract call evaluated in the last step, or "Rejected"
    rpc,        \* the call of a wrapper of the contract's client that is in progress
    page,       \* the username modal: its input, the stored username, the save handler
    wallet      \* the embedded wallet: cachedWallet, its localStorage items, calls in progress

gameVars == <<state, keys, loops, script, shots, hits, overCalls, animationId>>
chainVars == <<registry, ledger, now>>
clientVars == <<pending, client, board, rpc>>
pageVars == <<page, wallet>>

vars == <<state, keys, loops, script, shots, hits, overCalls, animationId,
          registry, ledger, now, pending, client, board, lastCall, rpc, page, wallet>>

NumInvaders == INVADER_ROWS * INVADER_COLS

\* ------------------------------------------------------------ createInitialState
invaderType(row) == IF row = 0 THEN "squid" ELSE IF row < 3 THEN "crab" ELSE "octopus"

startX == PX(CANVAS_WIDTH - (INVADER_COLS * (INVADER_WIDTH + INVADER_PADDING))) \div 2

\* The invader pushed for (row, col); index n = row * INVADER_COLS + col + 1.
initialInvader(n) ==
    LET row == (n - 1) \div INVADER_COLS
        col == (n - 1) % INVADER_COLS
    IN  [x         |-> startX + col * PX(INVADER_WIDTH + INVADER_PADDING),
         y         |-> PX(GRID_TOP) + row * PX(INVADER_HEIGHT + INVADER_PADDING),
         type      |-> invaderType(row),
         active    |-> TRUE,
         animFrame |-> 0]

createInitialState ==
    [ship             |-> [x |-> PX(CANVAS_WIDTH) \div 2 - PX(SHIP_WIDTH) \div 2,
                           y |-> PX(CANVAS_HEIGHT - SHIP_HEIGHT - SHIP_BOTTOM_GAP)],
     invaders         |-> [n \in 1..NumInvaders |-> initialInvader(n)],
     bullets          |-> <<>>,
     score            |-> 0,
     lives            |-> INITIAL_LIVES,
     gameOver         |-> FALSE,
     won              |-> FALSE,
     invaderDirection |-> 1,
     tick             |-> 0]

\* ------------------------------------------------------------ processInput
LeftKeys  == {"ArrowLeft", "a", "A"}
RightKeys == {"ArrowRight", "d", "D"}

leftHeld(ks)  == ks \cap LeftKeys # {}
rightHeld(ks) == ks \cap RightKeys # {}

\* Mutants: the left move without its clamp; the right move clamped at the
\* field's edge instead of the last position of the ship.
moveLeftUnclamped(x) == x - PX(SHIP_SPEED)
moveRightToEdge(x) == Min(PX(CANVAS_WIDTH), x + PX(SHIP_SPEED))

moveLeft(x)  == Max(0, x - PX(SHIP_SPEED))
moveRight(x) == Min(PX(CANVAS_WIDTH - SHIP_WIDTH), x + PX(SHIP_SPEED))

\* Mutant: processInput without its gameOver guard.
processInputAlways(s, ks) ==
    LET s1 == IF leftHeld(ks) THEN [s EXCEPT !.ship.x = moveLeft(@)] ELSE s
    IN  IF rightHeld(ks) THEN [s1 EXCEPT !.ship.x = moveRight(@)] ELSE s1

processInput(s, ks) ==
    IF s.gameOver THEN s
    ELSE LET s1 == IF leftHeld(ks) THEN [s EXCEPT !.ship.x = moveLeft(@)] ELSE s
         IN  IF rightHeld(ks) THEN [s1 EXCEPT !.ship.x = moveRight(@)] ELSE s1

\* ------------------------------------------------------------ shoot
activePlayerBullets(s) == SelectSeq(s.bullets, LAMBDA b : b.isPlayer /\ b.active)

\* Mutant: the bullet leaves from the ship's left edge.
shootFromEdge(s) ==
    IF Len(activePlayerBullets(s)) >= PLAYER_BULLET_CAP THEN s
    ELSE [s EXCEPT !.bullets = Append(@,
            [x        |-> s.ship.x,
             y        |-> s.ship.y - PX(BULLET_HEIGHT),
             active   |-> TRUE,
             isPlayer |-> TRUE])]

\* Mutant: the cap compared with > instead of >=.
shootOffByOne(s) ==
    IF Len(activePlayerBullets(s)) > PLAYER_BULLET_CAP THEN s
    ELSE [s EXCEPT !.bullets = Append(@,
            [x        |-> s.ship.x + PX(SHIP_WIDTH) \div 2 - PX(BULLET_WIDTH) \div 2,
             y        |-> s.ship.y - PX(BULLET_HEIGHT),
             active   |-> TRUE,
             isPlayer |-> TRUE])]

shoot(s) ==
    IF Len(activePlayerBullets(s)) >= PLAYER_BULLET_CAP THEN s
    ELSE [s EXCEPT !.bullets = Append(@,
            [x        |-> s.ship.x + PX(SHIP_WIDTH) \div 2 - PX(BULLET_WIDTH) \div 2,
             y        |-> s.ship.y - PX(BULLET_HEIGHT),
             active   |-> TRUE,
             isPlayer |-> TRUE])]

\* ------------------------------------------------------------ checkHit
\* Mutant: the vertical test joined by || instead of &&.
checkHitAnyHeight(x1, y1, w1, h1, x2, y2, w2, h2) ==
    x1 < x2 + w2 /\ x1 + w1 > x2 /\ (y1 < y2 + h2 \/ y1 + h1 > y2)

checkHit(x1, y1, w1, h1, x2, y2, w2, h2) ==
    x1 < x2 + w2 /\ x1 + w1 > x2 /\ y1 < y2 + h2 /\ y1 + h1 > y2

\* ------------------------------------------------------------ checkCollisions
\* The operators below thread m = [st, hits, over]: the GameState being
\* mutated, and the probes filled by the handler (hits; the onGameOver calls).
\* Mutant: the crab and octopus values exchanged.
pointsExchanged(type) == IF type = "squid" THEN 30 ELSE IF type = "crab" THEN 10 ELSE 20

points(type) == IF type = "squid" THEN 30 ELSE IF type = "crab" THEN 20 ELSE 10

bulletHitsInvader(bul, inv) ==
    checkHit(bul.x, bul.y, PX(BULLET_WIDTH), PX(BULLET_HEIGHT),
             inv.x, inv.y, PX(INVADER_WIDTH), PX(INVADER_HEIGHT))

\* The inner forEach (lines 305-323) for bullet b, from invader i on.  The
\* loop does not stop at the first hit and does not look at bullet.active.
RECURSIVE bulletVsInvaders(_, _, _)
bulletVsInvaders(m, b, i) ==
    IF i > Len(m.st.invaders) THEN m
    ELSE LET inv == m.st.invaders[i]
         IN  IF inv.active /\ bulletHitsInvader(m.st.bullets[b], inv)
             THEN bulletVsInvaders(
                    [m EXCEPT !.st.bullets[b].active = FALSE,
                              !.st.invaders[i].active = FALSE,
                              !.st.score = @ + points(inv.type),
                              !.hits = Append(@, <<b, i>>)], b, i + 1)
             ELSE bulletVsInvaders(m, b, i + 1)

\* The outer forEach (lines 302-324), from bullet b on.
RECURSIVE playerBulletsVsInvaders(_, _)
playerBulletsVsInvaders(m, b) ==
    IF b > Len(m.st.bullets) THEN m
    ELSE LET bul == m.st.bullets[b]
         IN  IF ~bul.active \/ ~bul.isPlayer
             THEN playerBulletsVsInvaders(m, b + 1)
             ELSE playerBulletsVsInvaders(bulletVsInvaders(m, b, 1), b + 1)

bulletHitsShip(bul, ship) ==
    checkHit(bul.x, bul.y, PX(BULLET_WIDTH), PX(BULLET_HEIGHT),
             ship.x, ship.y, PX(SHIP_WIDTH), PX(SHIP_HEIGHT))

\* Mutant: a hit that never ends the game.
shipHitGoesOn(m, b) ==
    [m EXCEPT !.st.bullets[b].active = FALSE, !.st.lives = @ - 1]

\* One enemy bullet hitting the ship (lines 334-343).
shipHit(m, b) ==
    LET lives == m.st.lives - 1
    IN  IF lives <= 0
        THEN [m EXCEPT !.st.bullets[b].active = FALSE,
                       !.st.lives = lives,
                       !.st.gameOver = TRUE,
                       !.over = Append(@, FALSE)]
        ELSE [m EXCEPT !.st.bullets[b].active = FALSE,
                       !.st.lives = lives]

\* The second forEach (lines 327-345), from bullet b on.
RECURSIVE enemyBulletsVsShip(_, _)
enemyBulletsVsShip(m, b) ==
    IF b > Len(m.st.bullets) THEN m
    ELSE LET bul == m.st.bullets[b]
         IN  IF ~bul.active \/ bul.isPlayer
             THEN enemyBulletsVsShip(m, b + 1)
             ELSE IF bulletHitsShip(bul, m.st.ship)
                  THEN enemyBulletsVsShip(shipHit(m, b), b + 1)
                  ELSE enemyBulletsVsShip(m, b + 1)

checkCollisions(m) == enemyBulletsVsShip(playerBulletsVsInvaders(m, 1), 1)

\* ------------------------------------------------------------ moveInvaders
\* Mutant: the right wall at the edge of the canvas, for the invader's left side.
atWallAtEdge(inv, dir) ==
    LET newX == inv.x + dir * PX(SWEEP_STEP)
    IN  newX <= 0 \/ newX >= PX(CANVAS_WIDTH)

\* Mutant: the right wall taken a ship's width, not an invader's, from the edge.
atWallOfShip(inv, dir) ==
    LET newX == inv.x + dir * PX(SWEEP_STEP)
    IN  newX <= 0 \/ newX >= PX(CANVAS_WIDTH - SHIP_WIDTH)

atWall(inv, dir) ==
    LET newX == inv.x + dir * PX(SWEEP_STEP)
    IN  newX <= 0 \/ newX >= PX(CANVAS_WIDTH - INVADER_WIDTH)

\* The first forEach (lines 353-361).
shouldDescend(s) ==
    \E i \in DOMAIN s.invaders :
        s.invaders[i].active /\ atWall(s.invaders[i], s.invaderDirection)

\* Mutant: at a wall the grid turns round without descending.
moveInvaderStaysUp(inv, dir, descend) ==
    IF descend THEN inv
               ELSE [inv EXCEPT !.x = @ + dir * PX(SWEEP_STEP)]

\* Mutant: each invader decides by its own wall test.
moveInvaderOwnWall(inv, dir, descend) ==
    IF atWall(inv, dir) THEN [inv EXCEPT !.y = @ + PX(DESCEND_STEP)]
                        ELSE [inv EXCEPT !.x = @ + dir * PX(SWEEP_STEP)]

\* The position update of one active invader (lines 365-369).
moveInvader(inv, dir, descend) ==
    IF descend THEN [inv EXCEPT !.y = @ + PX(DESCEND_STEP)]
               ELSE [inv EXCEPT !.x = @ + dir * PX(SWEEP_STEP)]

\* Mutant: the invasion test without its margin.
reachedShipNoMargin(inv, ship) == inv.y >= ship.y

reachedShip(inv, ship) == inv.y >= ship.y - PX(INVASION_MARGIN)

\* onGameOver is called once per active invader found at the ship's row.
RECURSIVE falses(_)
falses(n) == IF n = 0 THEN <<>> ELSE Append(falses(n - 1), FALSE)

moveInvaders(m) ==
    LET s       == m.st
        descend == shouldDescend(s)
        moved   == [i \in DOMAIN s.invaders |->
                      IF s.invaders[i].active
                      THEN moveInvader(s.invaders[i], s.invaderDirection, descend)
                      ELSE s.invaders[i]]
        landed  == {i \in DOMAIN moved : moved[i].active /\ reachedShip(moved[i], s.ship)}
    IN  [m EXCEPT !.st.invaders = moved,
                  !.st.gameOver = @ \/ landed # {},
                  !.st.invaderDirection = IF descend THEN -@ ELSE @,
                  !.over = @ \o falses(Cardinality(landed))]

\* ------------------------------------------------------------ enemyShoot
activeInvaders(s) == SelectSeq(s.invaders, LAMBDA i : i.active)

\* Mutant: the shooter is taken from all the invaders, destroyed ones as well.
enemyShootFromAny(m, k) ==
    LET act == activeInvaders(m.st)
    IN  IF Len(act) = 0 THEN m
        ELSE LET shooter == m.st.invaders[k + 1]
             IN  [m EXCEPT !.st.bullets = Append(@,
                    [x        |-> shooter.x + PX(INVADER_WIDTH) \div 2 - PX(BULLET_WIDTH) \div 2,
                     y        |-> shooter.y + PX(INVADER_HEIGHT),
                     active   |-> TRUE,
                     isPlayer |-> FALSE])]

\* k is Math.floor(Math.random() * activeInvaders.length): any index 0..length-1.
enemyShoot(m, k) ==
    LET act == activeInvaders(m.st)
    IN  IF Len(act) = 0 THEN m
        ELSE LET shooter == act[k + 1]
             IN  [m EXCEPT !.st.bullets = Append(@,
                    [x        |-> shooter.x + PX(INVADER_WIDTH) \div 2 - PX(BULLET_WIDTH) \div 2,
                     y        |-> shooter.y + PX(INVADER_HEIGHT),
                     active   |-> TRUE,
                     isPlayer |-> FALSE])]

\* ------------------------------------------------------------ update
\* Mutant: a bullet is not deactivated when it leaves the field.
moveBulletNoBounds(b) ==
    IF ~b.active THEN b
    ELSE [b EXCEPT !.y = @ + (IF b.isPlayer THEN -PX(PLAYER_BULLET_SPEED)
                                            ELSE PX(ENEMY_BULLET_SPEED))]

moveBullet(b) ==
    IF ~b.active THEN b
    ELSE LET y == b.y + (IF b.isPlayer THEN -PX(PLAYER_BULLET_SPEED) ELSE PX(ENEMY_BULLET_SPEED))
         IN  [b EXCEPT !.y = y, !.active = ~(y < 0 \/ y > PX(CANVAS_HEIGHT))]

moveBullets(s) == [s EXCEPT !.bullets = [i \in DOMAIN @ |-> moveBullet(@[i])]]

animate(s) ==
    [s EXCEPT !.invaders = [i \in DOMAIN @ |->
        IF @[i].active THEN [@[i] EXCEPT !.animFrame = (@ + 1) % 2] ELSE @[i]]]

\* Mutant: the win branch forgets to set won.
checkWinNoFlag(m) ==
    IF Len(activeInvaders(m.st)) = 0
    THEN [m EXCEPT !.st.gameOver = TRUE, !.over = Append(@, TRUE)]
    ELSE m

\* Lines 288-294.
checkWin(m) ==
    IF Len(activeInvaders(m.st)) = 0
    THEN [m EXCEPT !.st.gameOver = TRUE, !.st.won = TRUE, !.over = Append(@, TRUE)]
    ELSE m

\* Lines 296-297.
\* Mutant: no clean-up at the end of update().
cleanUpNothing(s) == s

\* Mutant: the destroyed invaders are compacted out as well.
cleanUpInvadersToo(s) ==
    [s EXCEPT !.bullets = SelectSeq(@, LAMBDA b : b.active),
              !.invaders = SelectSeq(@, LAMBDA i : i.active)]

cleanUp(s) == [s EXCEPT !.bullets = SelectSeq(@, LAMBDA b : b.active)]

idle(s) == [st |-> s, hits |-> <<>>, over |-> <<>>]

\* Mutant: the sweep decided on the tick value the update started with.
beforeFireOnOldTick(s) ==
    LET s1 == [s EXCEPT !.tick = @ + 1]
        m2 == checkCollisions(idle(moveBullets(s1)))
        m3 == IF s.tick % SWEEP_PERIOD = 0 THEN moveInvaders(m2) ELSE m2
    IN  IF s1.tick % ANIM_PERIOD = 0 THEN [m3 EXCEPT !.st = animate(@)] ELSE m3

\* update() of an Active game up to, not including, enemy fire (lines 239-281).
beforeFire(s) ==
    LET s1 == [s EXCEPT !.tick = @ + 1]
        m2 == checkCollisions(idle(moveBullets(s1)))
        m3 == IF s1.tick % SWEEP_PERIOD = 0 THEN moveInvaders(m2) ELSE m2
    IN  IF s1.tick % ANIM_PERIOD = 0 THEN [m3 EXCEPT !.st = animate(@)] ELSE m3

\* Mutant: the enemy fires on every sweep tick.
updateFiresOnSweep(s, k) ==
    IF s.gameOver THEN idle(s)
    ELSE LET m4 == beforeFire(s)
             m5 == IF m4.st.tick % SWEEP_PERIOD = 0 THEN enemyShoot(m4, k) ELSE m4
             m6 == checkWin(m5)
         IN  [m6 EXCEPT !.st = cleanUp(@)]

\* update(): k is the value of Math.floor(Math.random() * activeInvaders.length)
\* when enemyShoot reads it.
update(s, k) ==
    IF s.gameOver THEN idle(s)
    ELSE LET m4 == beforeFire(s)
             m5 == IF m4.st.tick % FIRE_PERIOD = 0 THEN enemyShoot(m4, k) ELSE m4
             m6 == checkWin(m5)
         IN  [m6 EXCEPT !.st = cleanUp(@)]

\* Whether update() of s reaches Math.random().
firesIn(s) == ~s.gameOver /\ (s.tick + 1) % FIRE_PERIOD = 0

\* ------------------------------------------------------------ the ledger contract
(***************************************************************************)
(* The contract on chain is not part of the sources; its four ledger       *)
(* entry points are modelled from their specification.  A username is a    *)
(* tuple of characters.                                                    *)
(***************************************************************************)
Me        == "A"                                  \* the address of this client's wallet
Others    == {"B"}                                \* the addresses of the other players
MyName    == <<"a", "b">>                         \* what this player typed as username
OtherNames == {<<"A", "b">>, <<"c", "d">>}        \* what the other players registered as
Scores    == {50, 100}                            \* the scores the other players submit

is_registered(reg, a) == a \in DOMAIN reg

register_player(reg, a, u) ==
    [x \in DOMAIN reg \cup {a} |-> IF x = a THEN u ELSE reg[x]]

submit_score(reg, led, a, sc, t) ==
    IF is_registered(reg, a)
    THEN Append(led, [player |-> a, username |-> reg[a], score |-> sc, timestamp |-> t])
    ELSE led

get_leaderboard(led) == led

\* A contract call as a transaction.
registerTx(a, u) == [op |-> "register_player", player |-> a, username |-> u, score |-> 0]
submitTx(a, sc)  == [op |-> "submit_score", player |-> a, username |-> <<>>, score |-> sc]
initTx(a)        == [op |-> "init_game", player |-> a, username |-> <<>>, score |-> 0]
gameTx(op, a)    == [op |-> op, player |-> a, username |-> <<>>, score |-> 0]

\* Whether the contract accepts the call in the registry reg.
accepts(reg, tx) == tx.op = "submit_score" => is_registered(reg, tx.player)

\* The chain evaluates one contract call: a call that is Rejected commits nothing.
Evaluate(tx) ==
    /\ registry' = IF tx.op = "register_player"
                   THEN register_player(registry, tx.player, tx.username) ELSE registry
    /\ ledger' = IF tx.op = "submit_score"
                 THEN submit_score(registry, ledger, tx.player, tx.score, now) ELSE ledger
    /\ lastCall' = IF accepts(registry, tx) THEN tx.op ELSE "Rejected"
    /\ UNCHANGED now

\* ------------------------------------------------------------ environment
(***************************************************************************)
(* The game is driven by its environment: the player's key events, the     *)
(* frame clock (whether delta >= tickInterval in a frame) and              *)
(* Math.random().  A full game has far too many runs to enumerate, so the  *)
(* environments explored are the scripts below; script is chosen in Init   *)
(* and never changes.  A script only restricts which inputs are offered    *)
(* in a state; the handlers are always the program's, and every state      *)
(* reached is a state of a real game.                                      *)
(*   steer  the arrow keys and the frame clock are free (MaxTick updates)  *)
(*   burst  the space key and the frame clock are free (MaxTick updates)   *)
(*   duck   no input; the invader that fires is one above the ship         *)
(*   idle   no input; the invader that fires is the first active one       *)
(*   hunt   a pilot steers with a/d under the nearest invader and fires;   *)
(*          with one invader left its shots are free                       *)
(*   volley the ship stays where start() put it; space is pressed before   *)
(*          the first update and after the updates of VolleyShots; every   *)
(*          frame is due, up to tick VolleyEnd                             *)
(*   random no input; every frame is due, up to tick RandomEnd; the        *)
(*          invader that fires is any active one; start() and stop() are   *)
(*          called at any time                                             *)
(* The script "ledger" is the environment of the ledger specification      *)
(* (LedgerSpec): the player plays one game, firing once and taking three   *)
(* hits, and does not start another; the other players call and the        *)
(* submit button is clicked once that game is over, and the other players  *)
(* call while no submit handler is running.  The script "session" is that  *)
(* of the session specification (SessionSpec): this player is alone on the *)
(* chain and plays that game again and again; START is pressed when no     *)
(* game is running, at most one run of the submit handler is in progress   *)
(* and neither a transaction nor a leaderboard nor a refresh timer is      *)
(* under way, and once more before the first update of a game when no run  *)
(* is in progress either; the network answers, the chain applies and the   *)
(* timers run out between two games, not while one is played; the network  *)
(* calls complete or sendTransaction answers ERROR.  The script "client"   *)
(* is that of the client specification (ClientSpec): the game is left as   *)
(* constructed and the wrappers of the contract's client are called, each  *)
(* once the chain has applied the transaction of the one before.  The      *)
(* script "page" is that of the page specification (PageSpec): a visitor   *)
(* types a username into the username modal and saves it, chooses a        *)
(* difficulty, plays the game of "ledger" and submits the score; the       *)
(* network is at rest while the game is played.  The                       *)
(* script "board" is that of the leaderboard specification (BoardSpec): a  *)
(* crowd of registered players submit a score each in turn while the       *)
(* leaderboard the page loads at its start is under way; one entry at most *)
(* is appended while an answer of get_leaderboard travels.  The script     *)
(* "wallet" is that of the wallet specification (WalletSpec): the page is  *)
(* loaded, which creates or restores the embedded wallet and funds it, the *)
(* functions of the wallet are called, each in a task of its own or        *)
(* several in one task, a secret key is imported once, and the page is     *)
(* loaded again; the leaderboard the page loads at its start stays under   *)
(* way.                                                                    *)
(* The markup of the page is not among the sources, so whether the submit  *)
(* button is enabled when the page is loaded is not known: where the       *)
(* button is clicked (ledger, page, session) both are explored.            *)
(***************************************************************************)
Scripts == {"steer", "burst", "duck", "idle", "hunt", "volley", "random"}

noBoard == [entries |-> <<>>, totals |-> <<>>, rows |-> <<>>]

\* No wrapper of the contract's client is running.  A value that may be
\* absent is held as a tuple, empty or of the one value.
noRpc == [fn |-> "none", arg |-> 0, pc |-> "idle", attempts |-> 0, polls |-> 0,
          taken |-> FALSE, accepted |-> FALSE, failure |-> "none", succeeded |-> FALSE,
          reported |-> <<>>, thrown |-> "none", ret |-> <<>>, answer |-> "none"]

\* The sequence s without its element i.
without(s, i) == SubSeq(s, 1, i - 1) \o SubSeq(s, i + 1, Len(s))

\* The alert of the submit handler is on screen in the step that raises it
\* only; rejected, whether the contract rejected the submission of the run of
\* the handler that raises it, goes with it.
dismissed(c) == [c EXCEPT !.shown = "none", !.rejected = FALSE]

\* A call of loadLeaderboard that awaits getLeaderboard (main.ts 662-665),
\* begun by the page, the submit handler or its timer; run is the run of the
\* submit handler that awaits it (0: none does).
called(by, run) == [by |-> by, run |-> run, pc |-> "called", entries |-> <<>>]

\* This client's page once its scripts have run (main.ts 704-705): init() has
\* read the stored username, and loadLeaderboard() awaits getLeaderboard.
\* runs holds the runs of the submit handler in progress; sent counts (up to
\* two) the submit_score transactions sent with a score of the game that was
\* started last.
loadedClient(username, enabled) ==
    [username |-> username, enabled |-> enabled, runs |-> <<>>, sent |-> 0,
     shown |-> "none", rejected |-> FALSE, optimistic |-> <<>>, timers |-> 0,
     loads |-> <<called("page", 0)>>]

\* The levels of the difficulty buttons; what they are called is not in the
\* sources.
Difficulties == {"first", "second"}

\* The page of a returning player with all settings after init(): the
\* username modal hidden, its input empty, the username and the difficulty in
\* localStorage, the game constructed, the difficulty modal hidden.  called
\* says that the registerPlayer call of the save handler has reached the
\* network.  A missing value is the empty sequence.
returningPage == [input |-> <<>>, stored |-> MyName, modal |-> FALSE, saving |-> FALSE,
                  username |-> <<>>, border |-> "default", called |-> FALSE,
                  game |-> TRUE, difficultyModal |-> FALSE, difficulty |-> <<"first">>]

\* Keypair.publicKey(): the public key derived from secret key k.
publicKey(k) == 2 * k + 1

\* The embedded wallet of a returning player after init() has restored and
\* funded it: secret and funded are the items of localStorage, generated
\* counts the calls of Keypair.random(), returned holds the public keys
\* getOrCreateWallet() has returned, calls the ensureWalletFunded() calls in
\* progress (what each awaits, the wallet object it was handed, and what
\* awaits it: init(), a wrapper, or a caller that does nothing with the wallet
\* afterwards), ensured the wrappers whose ensureWalletFunded() has found the
\* wallet funded in the task that is running and that have not gone on to
\* their own getOrCreateWallet() yet, wrappers the contract wrappers between
\* their getOrCreateWallet() and that of signAndSubmit (the public key each
\* has built its transaction for), signed the pairs of the public key a
\* transaction was built for and the secret key it was signed with, imported
\* that importWallet has replaced the wallet.
fundedWallet == [cached |-> <<[publicKey |-> publicKey(1), secretKey |-> 1, funded |-> TRUE]>>,
                 secret |-> <<1>>, funded |-> TRUE, generated |-> 0,
                 returned |-> {publicKey(1)}, calls |-> <<>>, ensured |-> 0,
                 wrappers |-> <<>>, signed |-> {}, imported |-> FALSE]

\* The other players and the submit button are at work.
chainActive ==
    \/ script \in {"ledger", "page"} /\ state.gameOver
    \/ script = "session" /\ (state.gameOver \/ loops = 0)
    \/ script = "board"

\* The network answers, the chain applies and the timers run out.
offersNetwork == script \in {"page", "session"} => state.gameOver \/ loops = 0

\* The other players call and the timestamp source moves on between two runs
\* of this client's submit handler, its timer and the loadLeaderboard the
\* timer calls.
othersActive ==
    /\ chainActive /\ client.runs = <<>> /\ client.timers = 0
    /\ \A i \in DOMAIN client.loads : client.loads[i].by = "page"

\* No answer of get_leaderboard that is under way lacks an entry of the
\* ledger: the other players append one entry at most while it travels.
answersFresh ==
    \A i \in DOMAIN client.loads :
        client.loads[i].pc = "answered" => Len(client.loads[i].entries) \in {0, Len(ledger)}

\* The submit button is clicked when no leaderboard is being loaded and, with
\* the script "session", no timer of a refresh is set.
offersClick ==
    /\ chainActive /\ client.loads = <<>>
    /\ script = "session" => client.timers = 0

\* Nothing of the submit handler is in progress and the network holds nothing.
sessionIdle ==
    client.runs = <<>> /\ client.timers = 0 /\ client.loads = <<>> /\ pending = <<>>

VolleyShots == {0, 51, 52}

playerBulletCount(s) == Len(SelectSeq(s.bullets, LAMBDA b : b.isPlayer))
activeCount(s) == Len(activeInvaders(s))

\* Where a bullet fired now would be, relative to a bullet-wide slot in the
\* middle of invader inv (negative: the invader is to the left).
aimOffset(s, inv) ==
    (inv.x + PX(INVADER_WIDTH) \div 2 - PX(BULLET_WIDTH) \div 2)
  - (s.ship.x + PX(SHIP_WIDTH) \div 2 - PX(BULLET_WIDTH) \div 2)

Abs(n) == IF n < 0 THEN -n ELSE n

\* The offset of the nearest active invader (the left one when two are as near).
nearestOffset(s) ==
    LET T    == {aimOffset(s, s.invaders[i]) : i \in {j \in DOMAIN s.invaders : s.invaders[j].active}}
        D    == {Abs(t) : t \in T}
        dmin == CHOOSE d \in D : \A e \in D : d <= e
    IN  IF -dmin \in T THEN -dmin ELSE dmin

\* The keys the pilot of "hunt" holds in state s.
pilotKeys(s) ==
    IF s.gameOver \/ activeCount(s) = 0 THEN {}
    ELSE LET off == nearestOffset(s)
         IN  IF off > PX(8) THEN {"d"} ELSE IF off < -PX(8) THEN {"a"} ELSE {}

\* The pilot's choices about firing in state s: a subset of BOOLEAN.
pilotFire(s) ==
    IF s.gameOver \/ activeCount(s) = 0 \/ pilotKeys(s) # {} THEN {FALSE}
    ELSE LET n     == activeCount(s)
             nb    == playerBulletCount(s)
             fresh == \E i \in DOMAIN s.bullets :
                         s.bullets[i].isPlayer /\ s.bullets[i].y = s.ship.y - PX(BULLET_HEIGHT)
         IN  IF n > 2 THEN {nb < PLAYER_BULLET_CAP /\ ~fresh}
             ELSE IF n = 2 THEN {nb = 0}
             ELSE IF nb = 0 THEN BOOLEAN ELSE {FALSE}

\* Distance between the middle of an invader and the middle of the ship.
shipDistance(s, inv) ==
    Abs((inv.x + PX(INVADER_WIDTH) \div 2) - (s.ship.x + PX(SHIP_WIDTH) \div 2))

\* The active invaders whose bullet, fired now, is above the ship.
aboveShip(s) ==
    {i \in DOMAIN s.invaders :
        /\ s.invaders[i].active
        /\ LET bx == s.invaders[i].x + PX(INVADER_WIDTH) \div 2 - PX(BULLET_WIDTH) \div 2
           IN  bx < s.ship.x + PX(SHIP_WIDTH) /\ bx + PX(BULLET_WIDTH) > s.ship.x}

\* The position in activeInvaders(s) (from 0) of invader i.
rank(s, i) == Cardinality({j \in DOMAIN s.invaders : j < i /\ s.invaders[j].active})

\* The values of Math.floor(Math.random() * length) script sc offers to
\* enemyShoot called in state s.
scriptChoices(sc, s) ==
    LET n == activeCount(s)
    IN  IF n = 0 THEN {0}
        ELSE CASE sc = "duck" ->
                    LET A == aboveShip(s)
                    IN  IF A = {} THEN {0}
                        ELSE {rank(s, CHOOSE i \in A : \A j \in A : i <= j),
                              rank(s, CHOOSE i \in A : \A j \in A : i >= j)}
               [] sc \in {"ledger", "page", "session"} ->
                    LET A == aboveShip(s)
                    IN  IF A = {} THEN {0}
                        ELSE {rank(s, CHOOSE i \in A : \A j \in A : i >= j)}
               [] sc = "hunt" ->
                    LET act == activeInvaders(s)
                    IN  IF shipDistance(s, act[1]) >= shipDistance(s, act[n]) THEN {0} ELSE {n - 1}
               [] sc = "random" -> 0 .. n - 1
               [] OTHER -> {0}


\* The values of Math.random()'s index offered to update() of s.
offeredChoices(sc, s) ==
    IF firesIn(s) THEN scriptChoices(sc, beforeFire(s).st) ELSE {0}

\* Key events the script lets the player make in the current state.  Once a
\* game of "duck" or "hunt" is over the player may still press space and left.
offersKeyDown(k) ==
    CASE state.gameOver -> script \in {"duck", "hunt"} /\ k \in {" ", "ArrowLeft"} /\ k \notin keys
      [] script = "steer" -> k \in {"ArrowLeft", "ArrowRight"} /\ k \notin keys
      [] script = "burst" -> k = " "
      [] script = "hunt"  -> \/ k \in pilotKeys(state) /\ k \notin keys
                             \/ k = " " /\ keys = pilotKeys(state) /\ TRUE \in pilotFire(state)
      [] script = "volley" -> k = " " /\ loops > 0 /\ shots = 0 /\ state.tick \in VolleyShots
      [] script \in {"ledger", "page", "session"} ->
                k = " " /\ loops > 0 /\ shots = 0 /\ state.tick = 0
      [] OTHER -> FALSE

offersKeyUp(k) ==
    /\ k \in keys
    /\ CASE state.gameOver   -> TRUE
         [] script = "steer" -> TRUE
         [] script = "burst" -> TRUE
         [] script = "hunt"  -> k \notin pilotKeys(state)
         [] OTHER -> FALSE

\* Frames the script lets happen: due is delta >= tickInterval.
offersFrame(due) ==
    \/ state.gameOver
    \/ CASE script \in {"steer", "burst"} -> due => state.tick < MaxTick
         [] script = "hunt" -> due /\ keys = pilotKeys(state) /\ FALSE \in pilotFire(state)
         [] script = "volley" -> /\ due /\ state.tick < VolleyEnd
                                 /\ state.tick \in VolleyShots => shots = 1
         [] script \in {"ledger", "page", "session"} -> due /\ (state.tick = 0 => shots = 1)
         [] script = "random" -> due /\ state.tick < RandomEnd
         [] OTHER -> due

\* Clicks on the start button the script lets happen.
offersStart ==
    /\ loops < MaxLoops
    /\ script \in {"hunt", "idle", "volley"} => state.gameOver \/ loops = 0
    /\ script \in {"ledger", "page"} => loops = 0 /\ ~state.gameOver
    /\ script = "page" => ~page.saving /\ wallet.calls = <<>>
    /\ script = "session" =>
          \/ /\ loops = 0 /\ Len(client.runs) <= 1
             /\ pending = <<>> /\ client.timers = 0 /\ client.loads = <<>>
          \/ loops = 1 /\ state.tick = 0 /\ shots = 0 /\ sessionIdle
    /\ script \in {"hunt", "idle", "duck"} => keys = {}

\* Calls of stop() the script lets happen.
offersStop ==
    \/ script = "random"
    \/ script = "idle" /\ state.gameOver /\ animationId # "null"

\* ------------------------------------------------------------ actions
Keys == {"ArrowLeft", "ArrowRight", "a", "d", " "}

\* The page after its scripts have run: the game is constructed, the stored
\* username is read, the leaderboard is being loaded, and the submit button
\* is enabled or not.
ConstructedWith(enabled) ==
    /\ state = createInitialState
    /\ keys = {}
    /\ loops = 0
    /\ shots = 0
    /\ hits = <<>>
    /\ overCalls = <<>>
    /\ animationId = "null"
    /\ registry = <<>>
    /\ ledger = <<>>
    /\ now = 0
    /\ pending = <<>>
    /\ client = loadedClient(MyName, enabled)
    /\ board = noBoard
    /\ lastCall = "none"
    /\ rpc = noRpc
    /\ page = returningPage
    /\ wallet = fundedWallet

\* Where the submit button is not clicked it is held disabled.
Constructed == ConstructedWith(FALSE)

Init == script \in Scripts /\ Constructed

\* The keydown listener (lines 153-164).
KeyDown(k) ==
    /\ offersKeyDown(k)
    /\ keys' = keys \cup {k}
    /\ IF k = " " /\ ~state.gameOver
       THEN state' = shoot(state) /\ shots' = Min(shots + 1, ShotCap)
       ELSE UNCHANGED <<state, shots>>
    /\ UNCHANGED <<loops, script, hits, overCalls, animationId>>
    /\ UNCHANGED <<pageVars, chainVars, clientVars, lastCall>>

\* The keyup listener (lines 166-168).
KeyUp(k) ==
    /\ offersKeyUp(k)
    /\ keys' = keys \ {k}
    /\ UNCHANGED <<state, loops, script, shots, hits, overCalls, animationId>>
    /\ UNCHANGED <<pageVars, chainVars, clientVars, lastCall>>

\* The values of Math.random()'s index offered to a frame (0 when it is not read).
frameChoices(due) ==
    IF due THEN offeredChoices(script, processInput(state, keys)) ELSE {0}

\* gameLoop as an animation-frame callback (lines 218-234): processInput,
\* update when due, and the callback is requested again unless the game is
\* over; animationId is the handle of the callback requested last.  Callbacks
\* run in the order they were requested in, so the handle of a pending
\* callback is that of the last one to run.
\* The page's onGameOver callback (main.ts 428-436) enables the submit button.
GameLoop(due, k) ==
    /\ loops > 0
    /\ offersFrame(due)
    /\ k \in frameChoices(due)
    /\ LET s1 == processInput(state, keys)
           m  == IF due THEN update(s1, k) ELSE idle(s1)
       IN  /\ state' = m.st
           /\ loops' = IF m.st.gameOver THEN loops - 1 ELSE loops
           /\ animationId' = IF ~m.st.gameOver THEN "pending"
                              ELSE IF loops = 1 /\ animationId = "pending" THEN "run"
                              ELSE animationId
           /\ shots' = IF due /\ ~s1.gameOver THEN 0 ELSE shots
           /\ hits' = m.hits
           /\ overCalls' = overCalls \o m.over
           /\ client' = IF m.over # <<>> THEN [client EXCEPT !.enabled = TRUE] ELSE client
    /\ UNCHANGED <<keys, script>>
    /\ UNCHANGED <<pageVars, chainVars, pending, board, lastCall, rpc>>

\* startBtn.onclick (main.ts 563-577) returns before game.start() when no game
\* is constructed or no username is set.
startRefused == ~page.game \/ client.username = <<>>

\* The page after such a return: the username modal is shown when there is
\* no username, the difficulty modal otherwise.
showModal ==
    IF client.username = <<>> THEN [page EXCEPT !.modal = TRUE]
    ELSE [page EXCEPT !.difficultyModal = TRUE]

\* The runs of the submit handler once a game is started: the score each has
\* read is no longer that of the game on screen.
stale(runs) == [i \in DOMAIN runs |-> [runs[i] EXCEPT !.current = FALSE]]

\* Mutant: a start() that keeps the score of the game before.
StartKeepsScore ==
    /\ offersStart
    /\ IF startRefused
       THEN /\ page' = showModal
            /\ client' = dismissed(client)
            /\ UNCHANGED <<state, loops, animationId, shots, hits, overCalls>>
       ELSE /\ state' = [processInput(createInitialState, keys) EXCEPT !.score = state.score]
            /\ loops' = loops + 1
            /\ animationId' = "pending"
            /\ shots' = 0
            /\ hits' = <<>>
            /\ overCalls' = <<>>
            /\ client' = [dismissed(client) EXCEPT !.enabled = FALSE, !.sent = 0,
                                                   !.runs = stale(@)]
            /\ page' = page
    /\ board' = noBoard /\ lastCall' = "none"
    /\ UNCHANGED <<keys, script, wallet>>
    /\ UNCHANGED <<chainVars, pending, rpc>>

\* startBtn.onclick (main.ts 563-584).  Past its early returns it calls
\* start() (game.ts 204-209): the state is replaced, then gameLoop() runs at
\* once with delta = 0, so that it processes the input and requests a
\* callback; then the handler disables the submit button.
Start ==
    /\ offersStart
    /\ IF startRefused
       THEN /\ page' = showModal
            /\ client' = dismissed(client)
            /\ UNCHANGED <<state, loops, animationId, shots, hits, overCalls>>
       ELSE /\ state' = processInput(createInitialState, keys)
            /\ loops' = loops + 1
            /\ animationId' = "pending"
            /\ shots' = 0
            /\ hits' = <<>>
            /\ overCalls' = <<>>
            /\ client' = [dismissed(client) EXCEPT !.enabled = FALSE, !.sent = 0,
                                                   !.runs = stale(@)]
            /\ page' = page
    /\ board' = noBoard /\ lastCall' = "none"
    /\ UNCHANGED <<keys, script, wallet>>
    /\ UNCHANGED <<chainVars, pending, rpc>>

\* stop() (lines 211-216): the callback animationId is the handle of is
\* cancelled, and animationId is null after it.  Nothing of the page calls it.
Stop ==
    /\ offersStop
    /\ loops' = IF animationId = "pending" THEN loops - 1 ELSE loops
    /\ animationId' = "null"
    /\ client' = dismissed(client)
    /\ board' = noBoard /\ lastCall' = "none"
    /\ UNCHANGED <<state, keys, script, shots, hits, overCalls>>
    /\ UNCHANGED <<pageVars, chainVars, pending, rpc>>

Next ==
    \/ \E k \in Keys : KeyDown(k)
    \/ \E k \in Keys : KeyUp(k)
    \/ \E due \in BOOLEAN :
          \E k \in (IF loops > 0 /\ offersFrame(due) THEN frameChoices(due) ELSE {}) :
              GameLoop(due, k)
    \/ Start
    \/ Stop

Spec == Init /\ [][Next]_vars


\* ------------------------------------------------------------ the contract's client
(***************************************************************************)
(* The wrappers of the contract's client await calls of the network        *)
(* library.  f says what those calls do in one run of a wrapper:           *)
(*   none          all complete                                            *)
(*   prepareError  one throws an Error before the transaction is sent      *)
(*   prepareXdr    one throws the XDR parsing error "Bad union switch"     *)
(*                 before the transaction is sent                          *)
(*   sendError     sendTransaction answers with status ERROR, or throws    *)
(*                 an Error without the network having the transaction     *)
(*   sendAgain     sendTransaction answers with status TRY_AGAIN_LATER:    *)
(*                 the network has not taken the transaction               *)
(*   sendXdr       the parsing error is thrown on the answer to a          *)
(*                 transaction the network has taken                       *)
(*   sendLost      another Error is thrown on the answer to a transaction  *)
(*                 the network has taken                                   *)
(* prepareTransaction simulates the call on the chain as it is and throws  *)
(* an Error when the contract rejects it.  A wrapper yields ret, what it   *)
(* resolves to, and sent, whether its transaction reached the network.     *)
(* The wrappers that only simulate a call send nothing.                    *)
(***************************************************************************)
Faults == {"none", "prepareError", "prepareXdr", "sendError", "sendAgain", "sendXdr", "sendLost"}

\* What the calls do in a run of a wrapper that only simulates a call.
ReadFaults == {"none", "prepareError"}

\* isPlayerRegistered: false on every failure.
isPlayerRegistered(f, reg, a) == f = "none" /\ is_registered(reg, a)

\* registerPlayer: signAndSubmit throws on status ERROR only, and every
\* exception is caught and gives false.
registerPlayer(f) == [ret  |-> f \in {"none", "sendAgain"},
                      sent |-> f \in {"none", "sendXdr", "sendLost"}]

\* submitScore: as registerPlayer, but the catch clause gives true for a
\* "Bad union switch" error.
submitScore(f, reg, a) ==
    IF f = "prepareXdr" THEN [ret |-> TRUE, sent |-> FALSE]
    ELSE IF f = "prepareError" \/ ~is_registered(reg, a) THEN [ret |-> FALSE, sent |-> FALSE]
    ELSE [ret  |-> f \in {"none", "sendAgain", "sendXdr"},
          sent |-> f \in {"none", "sendXdr", "sendLost"}]

Unknown == <<"U", "n", "k", "n", "o", "w", "n">>

\* Mutant: a sort that leaves the rows in the order of insertion.
insertRowAtEnd(rows, r) == Append(rows, r)

\* Mutant: the entries are handed over latest first.
getLeaderboardLatestFirst(f, led) ==
    IF f # "none" THEN <<>>
    ELSE [i \in DOMAIN led |-> led[Len(led) + 1 - i]]

\* getLeaderboard: the contract's entries in their order, with defaults for
\* empty fields; the empty list on every failure.
getLeaderboard(f, led) ==
    IF f # "none" THEN <<>>
    ELSE [i \in DOMAIN get_leaderboard(led) |->
            [username  |-> IF led[i].username = <<>> THEN Unknown ELSE led[i].username,
             player    |-> led[i].player,
             score     |-> led[i].score,
             timestamp |-> led[i].timestamp]]

\* ------------------------------------------------------------ loadLeaderboard
TOP_ROWS == 10

upperChar(c) ==
    CASE c = "a" -> "A" [] c = "b" -> "B" [] c = "c" -> "C" [] c = "d" -> "D"
      [] c = "k" -> "K" [] c = "n" -> "N" [] c = "o" -> "O" [] c = "w" -> "W"
      [] OTHER -> c

toUpperCase(u) == [i \in DOMAIN u |-> upperChar(u[i])]

\* Mutant: a later entry of a user replaces the total instead of adding to it.
addEntryKeepsLast(rows, entry) ==
    LET key == toUpperCase(entry.username)
        at  == {i \in DOMAIN rows : rows[i].key = key}
    IN  IF at # {}
        THEN [rows EXCEPT ![CHOOSE i \in at : TRUE].totalScore = entry.score]
        ELSE Append(rows, [key |-> key, username |-> entry.username, totalScore |-> entry.score])

\* One turn of the aggregation loop (main.ts 672-685) on the Map scoreByUsername,
\* held as the sequence of its values in insertion order, each with its key.
addEntry(rows, entry) ==
    LET key == toUpperCase(entry.username)
        at  == {i \in DOMAIN rows : rows[i].key = key}
    IN  IF at # {}
        THEN [rows EXCEPT ![CHOOSE i \in at : TRUE].totalScore = @ + entry.score]
        ELSE Append(rows, [key |-> key, username |-> entry.username, totalScore |-> entry.score])

RECURSIVE scoreByUsername(_)
scoreByUsername(entries) ==
    IF entries = <<>> THEN <<>>
    ELSE addEntry(scoreByUsername(SubSeq(entries, 1, Len(entries) - 1)), entries[Len(entries)])

\* sort((a, b) => b.totalScore - a.totalScore), a stable sort: row r goes
\* behind the rows whose total is not smaller.
insertRow(rows, r) ==
    LET n == Cardinality({i \in DOMAIN rows : rows[i].totalScore >= r.totalScore})
    IN  SubSeq(rows, 1, n) \o <<r>> \o SubSeq(rows, n + 1, Len(rows))

RECURSIVE sortRows(_)
sortRows(rows) ==
    IF rows = <<>> THEN <<>>
    ELSE insertRow(sortRows(SubSeq(rows, 1, Len(rows) - 1)), rows[Len(rows)])

\* aggregatedEntries (main.ts 688-690).
aggregatedEntries(entries) ==
    LET s == sortRows(scoreByUsername(entries))
    IN  SubSeq(s, 1, Min(Len(s), TOP_ROWS))


\* ------------------------------------------------------------ the submit handler
\* The leaderboard list loadLeaderboard (main.ts 655-701) renders from what
\* getLeaderboard hands over.
rendered(entries) ==
    [entries |-> entries,
     totals  |-> IF Len(entries) = 0 THEN <<>> ELSE scoreByUsername(entries),
     rows    |-> IF Len(entries) = 0 THEN <<>> ELSE aggregatedEntries(entries)]

\* addOptimisticScore(username, score): the score is put into the local cache
\* of scores awaiting confirmation.
addOptimisticScore(cache, username, score) ==
    Append(cache, [username |-> username, score |-> score])

\* refreshLeaderboard(): the local cache is dropped, so that what is shown
\* next is what the chain holds.
refreshLeaderboard(cache) == <<>>

\* submitScoreBtn.onclick (main.ts 588-640).  A click begins a run of the
\* handler; the runs in progress are client.runs, each with the score it read
\* and an id of its own.  Each awaited wrapper takes two steps: its calls
\* reach the network, which answers from the chain as it is then; and the
\* answer reaches the run, which goes on with it (answer, FALSE again once it
\* is used) while the chain may have moved on.  current says that the score
\* of the run is that of the game started last, rejected that the contract
\* rejects its submission.  client.loads holds the calls of loadLeaderboard in
\* progress: called, or answered by the chain with entries that have yet to
\* arrive.
newId(runs) ==
    CHOOSE n \in 1 .. Len(runs) + 1 :
        /\ \A i \in DOMAIN runs : runs[i].id # n
        /\ \A m \in 1 .. n - 1 : \E i \in DOMAIN runs : runs[i].id = m

\* The position in runs of the run with this id.
runOf(runs, id) == CHOOSE i \in DOMAIN runs : runs[i].id = id

Click ==
    /\ offersClick
    /\ client.enabled /\ page.game /\ client.username # <<>>
    /\ client' = [client EXCEPT
                     !.enabled = FALSE, !.shown = "none", !.rejected = FALSE,
                     !.runs = Append(@, [id |-> newId(@), pc |-> "checking",
                                         score |-> state.score, answer |-> FALSE,
                                         rejected |-> FALSE, current |-> TRUE])]
    /\ board' = noBoard /\ lastCall' = "none"
    /\ UNCHANGED <<gameVars, pageVars, chainVars, pending, rpc>>

\* isPlayerRegistered is simulated on the chain.
CheckRegistered(h, f) ==
    /\ offersNetwork
    /\ h \in DOMAIN client.runs /\ client.runs[h].pc = "checking"
    /\ client' = [dismissed(client) EXCEPT
                     !.runs[h].pc = "checked",
                     !.runs[h].answer = isPlayerRegistered(f, registry, Me)]
    /\ board' = noBoard /\ lastCall' = "none"
    /\ UNCHANGED <<gameVars, pageVars, chainVars, pending, rpc>>

\* The run goes on with the answer of isPlayerRegistered (main.ts 600-603).
Checked(h) ==
    /\ offersNetwork
    /\ h \in DOMAIN client.runs /\ client.runs[h].pc = "checked"
    /\ client' = [dismissed(client) EXCEPT
                     !.runs[h].pc = IF client.runs[h].answer THEN "submitting"
                                    ELSE "registering",
                     !.runs[h].answer = FALSE]
    /\ board' = noBoard /\ lastCall' = "none"
    /\ UNCHANGED <<gameVars, pageVars, chainVars, pending, rpc>>

\* registerPlayer(currentUsername) prepares and sends its transaction.
Register(h, f) ==
    /\ offersNetwork
    /\ h \in DOMAIN client.runs /\ client.runs[h].pc = "registering"
    /\ LET r == registerPlayer(f)
       IN  /\ r.sent => Len(pending) < MaxPending
           /\ pending' = IF r.sent THEN Append(pending, registerTx(Me, client.username))
                                   ELSE pending
           /\ client' = [dismissed(client) EXCEPT !.runs[h].pc = "registered",
                                                  !.runs[h].answer = r.ret]
    /\ board' = noBoard /\ lastCall' = "none"
    /\ UNCHANGED <<gameVars, pageVars, chainVars, rpc>>

\* The run goes on with the answer of registerPlayer (main.ts 603-610): when
\* it is false the failure is alerted, the button is enabled and the run ends.
Registered(h) ==
    /\ offersNetwork
    /\ h \in DOMAIN client.runs /\ client.runs[h].pc = "registered"
    /\ client' = IF client.runs[h].answer
                 THEN [dismissed(client) EXCEPT !.runs[h].pc = "submitting",
                                                !.runs[h].answer = FALSE]
                 ELSE [client EXCEPT !.runs = without(@, h), !.enabled = TRUE,
                                     !.shown = "Failed to register", !.rejected = FALSE]
    /\ board' = noBoard /\ lastCall' = "none"
    /\ UNCHANGED <<gameVars, pageVars, chainVars, pending, rpc>>

\* contractSubmitScore(score) prepares and sends its transaction.
Submit(h, f) ==
    /\ offersNetwork
    /\ h \in DOMAIN client.runs /\ client.runs[h].pc = "submitting"
    /\ LET r == submitScore(f, registry, Me)
       IN  /\ r.sent => Len(pending) < MaxPending
           /\ pending' = IF r.sent THEN Append(pending, submitTx(Me, client.runs[h].score))
                                   ELSE pending
           /\ client' = [dismissed(client) EXCEPT
                            !.runs[h].pc = "submitted",
                            !.runs[h].answer = r.ret,
                            !.runs[h].rejected = ~is_registered(registry, Me),
                            !.sent = IF r.sent /\ client.runs[h].current
                                     THEN Min(@ + 1, 2) ELSE @]
    /\ board' = noBoard /\ lastCall' = "none"
    /\ UNCHANGED <<gameVars, pageVars, chainVars, rpc>>

\* The run goes on with the answer of contractSubmitScore (main.ts 614-621,
\* 631-633, 639): on success the score goes into the optimistic cache and
\* loadLeaderboard is called, otherwise the failure is alerted and the run
\* ends.
Submitted(h) ==
    /\ offersNetwork
    /\ h \in DOMAIN client.runs /\ client.runs[h].pc = "submitted"
    /\ client' = IF client.runs[h].answer
                 THEN [dismissed(client) EXCEPT
                          !.runs[h].pc = "loading", !.runs[h].answer = FALSE,
                          !.optimistic = addOptimisticScore(@, client.username,
                                                            client.runs[h].score),
                          !.loads = Append(@, called("submit", client.runs[h].id))]
                 ELSE [client EXCEPT !.runs = without(@, h),
                                     !.shown = "Failed to submit",
                                     !.rejected = client.runs[h].rejected]
    /\ board' = noBoard /\ lastCall' = "none"
    /\ UNCHANGED <<gameVars, pageVars, chainVars, pending, rpc>>

\* The timer of the handler runs out (main.ts 626-630): refreshLeaderboard,
\* then loadLeaderboard is called.
Refresh ==
    /\ offersNetwork
    /\ client.timers > 0
    /\ client' = [dismissed(client) EXCEPT !.timers = @ - 1,
                                           !.optimistic = refreshLeaderboard(@),
                                           !.loads = Append(@, called("timer", 0))]
    /\ board' = noBoard /\ lastCall' = "none"
    /\ UNCHANGED <<gameVars, pageVars, chainVars, pending, rpc>>

\* The chain answers the get_leaderboard simulation of call i from the ledger
\* as it is now (README.md 764-791), or the call fails.
GetLeaderboard(i, f) ==
    /\ offersNetwork
    /\ i \in DOMAIN client.loads /\ client.loads[i].pc = "called"
    /\ client' = [dismissed(client) EXCEPT
                     !.loads[i] = [@ EXCEPT !.pc = "answered",
                                            !.entries = getLeaderboard(f, ledger)]]
    /\ board' = noBoard /\ lastCall' = "none"
    /\ UNCHANGED <<gameVars, pageVars, chainVars, pending, rpc>>

\* The entries of call i arrive and loadLeaderboard renders them (main.ts
\* 665-697); the run of the submit handler that awaited the call alerts the
\* success, sets the timer of the refresh and ends (621-630, 639).
Loaded(i) ==
    /\ offersNetwork
    /\ i \in DOMAIN client.loads /\ client.loads[i].pc = "answered"
    /\ board' = rendered(client.loads[i].entries)
    /\ client' = IF client.loads[i].by = "submit"
                 THEN LET h == runOf(client.runs, client.loads[i].run)
                      IN  [client EXCEPT !.loads = without(@, i),
                                         !.runs = without(@, h),
                                         !.shown = "SCORE SUBMITTED",
                                         !.rejected = client.runs[h].rejected,
                                         !.timers = @ + 1]
                 ELSE [dismissed(client) EXCEPT !.loads = without(@, i)]
    /\ lastCall' = "none"
    /\ UNCHANGED <<gameVars, pageVars, chainVars, pending, rpc>>

\* ------------------------------------------------------------ the chain
\* The chain applies the oldest transaction this client sent.
Apply ==
    /\ offersNetwork
    /\ pending # <<>>
    /\ Head(pending).op = "submit_score" => Len(ledger) < MaxLedger
    /\ Evaluate(Head(pending))
    /\ pending' = Tail(pending)
    /\ board' = noBoard /\ client' = dismissed(client)
    /\ UNCHANGED <<gameVars, pageVars, rpc>>

\* The calls the other players make.
OtherCalls ==
    {registerTx(a, u) : a \in Others, u \in OtherNames}
        \cup {submitTx(a, sc) : a \in Others, sc \in Scores}
        \cup {initTx(a) : a \in Others}

OtherCall(tx) ==
    /\ othersActive
    /\ tx.op = "submit_score" => Len(ledger) < MaxLedger /\ answersFresh
    /\ Evaluate(tx)
    /\ board' = noBoard /\ client' = dismissed(client)
    /\ UNCHANGED <<gameVars, pageVars, pending, rpc>>

\* The timestamp source moves on.  Only the entries tell its values apart,
\* so it is let advance once for each entry appended.
CloseLedger ==
    /\ othersActive
    /\ now < MaxTime /\ now < Len(ledger)
    /\ now' = now + 1
    /\ board' = noBoard /\ lastCall' = "none" /\ client' = dismissed(client)
    /\ UNCHANGED <<gameVars, pageVars, registry, ledger, pending, rpc>>

\* ------------------------------------------------------------ the ledger specification
LedgerInit == script = "ledger" /\ \E enabled \in BOOLEAN : ConstructedWith(enabled)

LedgerNext ==
    \/ KeyDown(" ")
    \/ \E due \in BOOLEAN :
          \E k \in (IF loops > 0 /\ offersFrame(due) THEN frameChoices(due) ELSE {}) :
              GameLoop(due, k)
    \/ Start
    \/ Click
    \/ \E h \in DOMAIN client.runs : \E f \in ReadFaults : CheckRegistered(h, f)
    \/ \E h \in DOMAIN client.runs : Checked(h)
    \/ \E h \in DOMAIN client.runs : \E f \in Faults : Register(h, f)
    \/ \E h \in DOMAIN client.runs : Registered(h)
    \/ \E h \in DOMAIN client.runs : \E f \in Faults : Submit(h, f)
    \/ \E h \in DOMAIN client.runs : Submitted(h)
    \/ Refresh
    \/ \E i \in DOMAIN client.loads : \E f \in ReadFaults : GetLeaderboard(i, f)
    \/ \E i \in DOMAIN client.loads : Loaded(i)
    \/ Apply
    \/ \E tx \in OtherCalls : OtherCall(tx)
    \/ CloseLedger

LedgerSpec == LedgerInit /\ [][LedgerNext]_vars

\* ------------------------------------------------------------ the session specification
\* The calls of init_game the other players make.
InitCalls == {initTx(a) : a \in Others}

\* What the calls do in a run of a wrapper under the script "session".
SessionFaults == {"none", "sendError"}

SessionInit == script = "session" /\ \E enabled \in BOOLEAN : ConstructedWith(enabled)

SessionNext ==
    \/ KeyDown(" ")
    \/ \E due \in BOOLEAN :
          \E k \in (IF loops > 0 /\ offersFrame(due) THEN frameChoices(due) ELSE {}) :
              GameLoop(due, k)
    \/ Start
    \/ Click
    \/ \E h \in DOMAIN client.runs : \E f \in ReadFaults : CheckRegistered(h, f)
    \/ \E h \in DOMAIN client.runs : Checked(h)
    \/ \E h \in DOMAIN client.runs : \E f \in SessionFaults : Register(h, f)
    \/ \E h \in DOMAIN client.runs : Registered(h)
    \/ \E h \in DOMAIN client.runs : \E f \in SessionFaults : Submit(h, f)
    \/ \E h \in DOMAIN client.runs : Submitted(h)
    \/ Refresh
    \/ \E i \in DOMAIN client.loads : \E f \in ReadFaults : GetLeaderboard(i, f)
    \/ \E i \in DOMAIN client.loads : Loaded(i)
    \/ Apply
    \/ \E tx \in InitCalls : OtherCall(tx)

SessionSpec == SessionInit /\ [][SessionNext]_vars

\* ------------------------------------------------------------ signAndSubmit and the game wrappers
(***************************************************************************)
(* A call of a wrapper runs in stretches between awaited calls of the      *)
(* network library: the calls before signAndSubmit (wallet, account        *)
(* lookup, prepareTransaction), sendTransaction, and the turns of the      *)
(* polling loop, each a timer of a second and a getTransaction.  What the  *)
(* library answers is the environment's choice, within what the chain      *)
(* holds: a transaction the network has taken is in pending until the      *)
(* chain applies it, and a poll reports SUCCESS or FAILED for an applied   *)
(* transaction only.  rpc.taken says that the network has taken the        *)
(* transaction of the call, failure which stretch failed, accepted that    *)
(* sendTransaction answered with a status other than ERROR, succeeded that *)
(* a poll reported SUCCESS, reported what the contract returned, thrown    *)
(* what signAndSubmit threw, ret what the wrapper resolved to; attempts is *)
(* the loop's counter; polls counts the getTransaction calls (capped one   *)
(* above maxAttempts); answer is the last answer of the library.           *)
(***************************************************************************)
maxAttempts == 30

Wrappers == {"initGame", "moveShip", "shoot", "updateTick", "registerPlayer", "submitScore"}
Directions == {-1, 1}                  \* the arguments of moveShip
ScoreArguments == {100}                \* the argument of submitScore
Positions  == {0, 375}                 \* ship positions the contract reports: the left
                                       \* wall and the centre
Returned(fn) == IF fn = "moveShip" THEN Positions
                ELSE IF fn \in {"shoot", "updateTick"} THEN BOOLEAN ELSE {}

\* The arguments wrapper fn is called with; registerPlayer is called with
\* MyName, the wrappers without a parameter are given 0.
Arguments(fn) == IF fn = "moveShip" THEN Directions
                 ELSE IF fn = "submitScore" THEN ScoreArguments ELSE {0}

\* The wrappers that call signAndSubmit(prepared, true).
fireAndForget(fn) == fn \in {"registerPlayer", "submitScore"}

\* The transaction wrapper fn(arg) builds (contract.call(...) in each
\* wrapper); of a call of the game contract only the entry point is kept.
callTx(fn, arg) ==
    CASE fn = "registerPlayer" -> registerTx(Me, MyName)
      [] fn = "submitScore"    -> submitTx(Me, arg)
      [] fn = "initGame"       -> initTx(Me)
      [] fn = "moveShip"       -> gameTx("move_ship", Me)
      [] fn = "shoot"          -> gameTx("shoot", Me)
      [] OTHER                 -> gameTx("update_tick", Me)

\* What wrapper fn(arg) resolves to when signAndSubmit returned a result
\* whose returnValue is rv.
resolved(fn, arg, rv) ==
    IF fn = "moveShip" THEN (IF rv # <<>> THEN rv ELSE <<arg>>)
    ELSE IF fn \in {"shoot", "updateTick"} THEN (IF rv # <<>> THEN rv ELSE <<TRUE>>)
    ELSE <<TRUE>>

\* What the catch clause of wrapper fn resolves to; xdr says that the
\* error's message contains "Bad union switch".
caught(fn, xdr) ==
    IF fn = "moveShip" THEN <<0>>
    ELSE IF fn = "submitScore" THEN <<xdr>>
    ELSE <<FALSE>>

\* The wrapper returns after signAndSubmit returned a result with returnValue rv.
returns(r, rv) == [r EXCEPT !.pc = "done", !.ret = resolved(r.fn, r.arg, rv)]

\* signAndSubmit, or an awaited call before it, throws msg; the wrapper's
\* catch clause resolves the call.
throws(r, stretch, msg) ==
    [r EXCEPT !.pc = "done", !.failure = stretch, !.thrown = msg,
              !.ret = caught(r.fn, msg = "Bad union switch")]

\* The stretch up to prepareTransaction; o is what the awaited calls do.
prepare(r, o) ==
    IF o = "ok" THEN [r EXCEPT !.pc = "send"]
    ELSE throws(r, "preparation", IF o = "xdr" THEN "Bad union switch" ELSE "Error")

\* signAndSubmit from the answer of sendTransaction up to its polling loop
\* (lines 364-384, 420); o is the status sendTransaction answers with, or
\* what it throws: an Error ("throw") or one whose message contains "Bad
\* union switch" ("xdr").
send(r, o) ==
    IF o = "xdr" THEN throws([r EXCEPT !.answer = o], "submission", "Bad union switch")
    ELSE IF o = "throw" THEN throws([r EXCEPT !.answer = o], "submission", "Error")
    ELSE IF o = "ERROR" THEN throws([r EXCEPT !.answer = o], "submission", "Transaction failed")
    ELSE LET a == [r EXCEPT !.accepted = TRUE, !.answer = o]
         IN  IF fireAndForget(r.fn) THEN returns(a, <<>>)
             ELSE IF o = "PENDING" THEN [a EXCEPT !.pc = "wait"]
             ELSE returns(a, <<>>)

\* The timer of a turn of the polling loop fires (lines 387-391): attempts++
\* and getTransaction is called.
turn(r) ==
    [r EXCEPT !.attempts = @ + 1, !.polls = Min(@ + 1, maxAttempts + 1), !.pc = "poll"]

\* Mutant: the loop forgets its last attempt, so that its test never fails.
pollUncounted(r, o, rv) ==
    LET p == [r EXCEPT !.answer = o]
    IN  IF o = "NOT_FOUND" THEN [p EXCEPT !.pc = "wait", !.attempts = Min(@, maxAttempts - 1)]
        ELSE IF o = "SUCCESS" THEN returns([p EXCEPT !.succeeded = TRUE, !.reported = rv], rv)
        ELSE IF o = "FAILED" THEN throws(p, "on chain", "Transaction failed on chain")
        ELSE IF o = "xdr" THEN returns([p EXCEPT !.failure = "polling"], <<>>)
        ELSE throws(p, "polling", "Error")

\* The rest of a turn of the polling loop (lines 391-412), and what follows
\* the loop when its test fails (line 415); o is the status getTransaction
\* answers with, or what it throws, rv the returnValue of a SUCCESS answer.
poll(r, o, rv) ==
    LET p == [r EXCEPT !.answer = o]
    IN  IF o = "NOT_FOUND"
        THEN IF p.attempts < maxAttempts THEN [p EXCEPT !.pc = "wait"]
             ELSE throws(p, "timeout", "Transaction timeout")
        ELSE IF o = "SUCCESS" THEN returns([p EXCEPT !.succeeded = TRUE, !.reported = rv], rv)
        ELSE IF o = "FAILED" THEN throws(p, "on chain", "Transaction failed on chain")
        ELSE IF o = "xdr" THEN returns([p EXCEPT !.failure = "polling"], <<>>)
        ELSE throws(p, "polling", "Error")

\* Nothing but rpc, and pending where it is given, changes.
rpcOnly == /\ board' = noBoard /\ lastCall' = "none"
           /\ UNCHANGED <<gameVars, pageVars, chainVars, client>>

\* The next call is made when the chain has applied the transaction of the
\* one before.
offersCall == script = "client" /\ pending = <<>>

Call(fn, arg) ==
    /\ offersCall
    /\ rpc.pc = "idle"
    /\ rpc' = [noRpc EXCEPT !.fn = fn, !.arg = arg, !.pc = "prepare"]
    /\ rpcOnly /\ UNCHANGED pending

Prepare(o) ==
    /\ rpc.pc = "prepare"
    /\ rpc' = prepare(rpc, o)
    /\ rpcOnly /\ UNCHANGED pending

\* The network takes the transaction sendTransaction has sent (line 364).
Taken ==
    /\ rpc.pc = "send" /\ ~rpc.taken
    /\ Len(pending) < MaxPending
    /\ pending' = Append(pending, callTx(rpc.fn, rpc.arg))
    /\ rpc' = [rpc EXCEPT !.taken = TRUE]
    /\ rpcOnly

\* sendTransaction answers or throws.  PENDING and DUPLICATE are answers for
\* a transaction the network holds, ERROR and TRY_AGAIN_LATER for one it
\* has not taken.
Send(o) ==
    /\ rpc.pc = "send"
    /\ o \in {"PENDING", "DUPLICATE"} => rpc.taken
    /\ o \in {"ERROR", "TRY_AGAIN_LATER"} => ~rpc.taken
    /\ rpc' = send(rpc, o)
    /\ rpcOnly /\ UNCHANGED pending

Timer ==
    /\ rpc.pc = "wait"
    /\ rpc' = turn(rpc)
    /\ rpcOnly /\ UNCHANGED pending

\* getTransaction answers or throws.
Poll(o, rv) ==
    /\ rpc.pc = "poll"
    /\ o \in {"SUCCESS", "FAILED"} => pending = <<>>
    /\ rv # <<>> <=> o = "SUCCESS" /\ Returned(rpc.fn) # {}
    /\ rpc' = poll(rpc, o, rv)
    /\ rpcOnly /\ UNCHANGED pending

\* The caller has the result; the next call can be made.
Resolve ==
    /\ rpc.pc = "done"
    /\ rpc' = noRpc
    /\ rpcOnly /\ UNCHANGED pending

ClientInit == script = "client" /\ Constructed

ClientNext ==
    \/ \E fn \in Wrappers : \E arg \in Arguments(fn) : Call(fn, arg)
    \/ \E o \in {"ok", "error", "xdr"} : Prepare(o)
    \/ Taken
    \/ \E o \in {"PENDING", "ERROR", "DUPLICATE", "TRY_AGAIN_LATER", "throw", "xdr"} : Send(o)
    \/ Timer
    \/ \E o \in {"NOT_FOUND", "SUCCESS", "FAILED", "xdr", "error"} :
          \E rv \in {<<>>} \cup {<<v>> : v \in Returned(rpc.fn)} : Poll(o, rv)
    \/ Resolve
    \/ Apply

\* The event loop runs every continuation that is ready: a timer, an answer
\* or an error of the network library.
ClientSpec == ClientInit /\ [][ClientNext]_vars /\ WF_vars(ClientNext)

\* ------------------------------------------------------------ the username modal
\* String.prototype.trim() on a sequence of characters; the blank is the
\* white space the inputs below hold.
trim(s) ==
    LET I == {i \in DOMAIN s : s[i] # " "}
    IN  IF I = {} THEN <<>>
        ELSE SubSeq(s, CHOOSE i \in I : \A j \in I : i <= j,
                       CHOOSE i \in I : \A j \in I : i >= j)

\* String.prototype.slice(0, n).
slice(s, n) == SubSeq(s, 1, Min(Len(s), n))

\* n times the character c.
repeat(c, n) == [i \in 1..n |-> c]

\* What the visitor types into the username input: nothing, blanks, one
\* character, 2, 16 and 17 characters, with and without blanks around them.
Inputs ==
    {<<>>, <<" ">>, <<"a">>, <<" ", "a", " ">>, <<"c", "d">>, <<" ", "c", "d", " ">>,
     repeat("a", 16), <<" ">> \o repeat("a", 16) \o <<" ">>,
     repeat("a", 17), repeat("a", 15) \o <<" ", "b">>}

\* Mutant: a check of the username's length with no upper limit.
lengthCheckNoUpperLimit(username) ==
    IF Len(username) < 2 THEN "short" ELSE "ok"

\* The two tests of the save handler on the trimmed username (main.ts 505-514).
lengthCheck(username) ==
    IF Len(username) < 2 THEN "short"
    ELSE IF Len(username) > 16 THEN "long"
    ELSE "ok"

\* The visitor types into the input of the username modal, between two
\* runs of the save handler.
Type(v) ==
    /\ page.modal /\ ~page.saving
    /\ v # page.input
    /\ page' = [page EXCEPT !.input = v]
    /\ board' = noBoard /\ lastCall' = "none" /\ client' = dismissed(client)
    /\ UNCHANGED <<gameVars, chainVars, pending, rpc, wallet>>

\* saveUsernameBtn.onclick up to its await (main.ts 502-522): a username that
\* is too short turns the input's border red, one that is too long is cut to
\* 16 characters in the input, and the handler returns; otherwise the button
\* is disabled and registerPlayer(username) is called.
SaveClick ==
    /\ page.modal /\ ~page.saving
    /\ LET username == trim(page.input)
           check    == lengthCheck(username)
       IN  page' = IF check = "short" THEN [page EXCEPT !.border = "#ff0066"]
                   ELSE IF check = "long" THEN [page EXCEPT !.input = slice(username, 16)]
                   ELSE [page EXCEPT !.saving = TRUE, !.username = username]
    /\ board' = noBoard /\ lastCall' = "none" /\ client' = dismissed(client)
    /\ UNCHANGED <<gameVars, chainVars, pending, rpc, wallet>>

\* registerPlayer(username), awaited by the save handler (main.ts 522),
\* prepares and sends its transaction.
SaveRegister(f) ==
    /\ page.saving /\ ~page.called
    /\ LET r == registerPlayer(f)
       IN  /\ r.sent => Len(pending) < MaxPending
           /\ pending' = IF r.sent THEN Append(pending, registerTx(Me, page.username))
                                   ELSE pending
    /\ page' = [page EXCEPT !.called = TRUE]
    /\ board' = noBoard /\ lastCall' = "none" /\ client' = dismissed(client)
    /\ UNCHANGED <<gameVars, chainVars, rpc, wallet>>

\* The rest of saveUsernameBtn.onclick (main.ts 526-538): registerPlayer has
\* answered, whatever it answered the username becomes currentUsername and is
\* stored, the username modal is hidden, the difficulty modal is shown and
\* the button is enabled.
SaveRegistered ==
    /\ page.saving /\ page.called
    /\ client' = [dismissed(client) EXCEPT !.username = page.username]
    /\ page' = [page EXCEPT !.stored = page.username, !.modal = FALSE, !.saving = FALSE,
                            !.called = FALSE, !.difficultyModal = TRUE]
    /\ board' = noBoard /\ lastCall' = "none"
    /\ UNCHANGED <<gameVars, chainVars, pending, rpc, wallet>>

\* A difficulty button (main.ts 548-561): the modal is hidden, initializeGame
\* (main.ts 409-445) stores the level and constructs the game, and the start
\* button is enabled.
ChooseDifficulty(d) ==
    /\ page.difficultyModal
    /\ page' = [page EXCEPT !.difficultyModal = FALSE, !.difficulty = <<d>>, !.game = TRUE]
    /\ state' = createInitialState
    /\ keys' = {}
    /\ shots' = 0 /\ hits' = <<>> /\ overCalls' = <<>>
    /\ animationId' = "null"
    /\ board' = noBoard /\ lastCall' = "none" /\ client' = dismissed(client)
    /\ UNCHANGED <<loops, script, chainVars, pending, rpc, wallet>>

\* The page after init() (main.ts 447-482): currentUsername is the stored
\* username; the username modal is shown when there is none, the difficulty
\* modal when there is a username but no stored difficulty, and the game is
\* constructed when both are stored.
PageInit ==
    /\ script = "page"
    /\ state = createInitialState
    /\ keys = {} /\ loops = 0 /\ shots = 0 /\ hits = <<>> /\ overCalls = <<>>
    /\ animationId = "null"
    /\ registry = <<>> /\ ledger = <<>> /\ now = 0 /\ pending = <<>>
    /\ board = noBoard /\ lastCall = "none" /\ rpc = noRpc
    /\ wallet = fundedWallet
    /\ \E stored \in {<<>>, MyName}, difficulty \in {<<>>, <<"first">>} :
          /\ page = [returningPage EXCEPT
                        !.stored = stored, !.difficulty = difficulty,
                        !.modal = (stored = <<>>),
                        !.difficultyModal = (stored # <<>> /\ difficulty = <<>>),
                        !.game = (stored # <<>> /\ difficulty # <<>>)]
          /\ \E enabled \in BOOLEAN : client = loadedClient(stored, enabled)

PageNext ==
    \/ \E v \in Inputs : Type(v)
    \/ SaveClick
    \/ \E f \in Faults : SaveRegister(f)
    \/ SaveRegistered
    \/ \E d \in Difficulties : ChooseDifficulty(d)
    \/ Start
    \/ KeyDown(" ")
    \/ \E due \in BOOLEAN :
          \E k \in (IF loops > 0 /\ offersFrame(due) THEN frameChoices(due) ELSE {}) :
              GameLoop(due, k)
    \/ Click
    \/ \E h \in DOMAIN client.runs : \E f \in ReadFaults : CheckRegistered(h, f)
    \/ \E h \in DOMAIN client.runs : Checked(h)
    \/ \E h \in DOMAIN client.runs : \E f \in Faults : Register(h, f)
    \/ \E h \in DOMAIN client.runs : Registered(h)
    \/ \E h \in DOMAIN client.runs : \E f \in Faults : Submit(h, f)
    \/ \E h \in DOMAIN client.runs : Submitted(h)
    \/ Refresh
    \/ \E i \in DOMAIN client.loads : \E f \in ReadFaults : GetLeaderboard(i, f)
    \/ \E i \in DOMAIN client.loads : Loaded(i)
    \/ Apply

PageSpec == PageInit /\ [][PageNext]_vars

\* ------------------------------------------------------------ the leaderboard specification
\* The registered players of the leaderboard specification: eleven usernames
\* that differ in capitals, and a twelfth that is the first one in capitals.
Crowd ==
    <<[player |-> "P01", username |-> <<"a", "b">>], [player |-> "P02", username |-> <<"c", "d">>],
      [player |-> "P03", username |-> <<"a", "a">>], [player |-> "P04", username |-> <<"b", "b">>],
      [player |-> "P05", username |-> <<"c", "c">>], [player |-> "P06", username |-> <<"d", "d">>],
      [player |-> "P07", username |-> <<"k", "k">>], [player |-> "P08", username |-> <<"n", "n">>],
      [player |-> "P09", username |-> <<"o", "o">>], [player |-> "P10", username |-> <<"w", "w">>],
      [player |-> "P11", username |-> <<"a", "c">>], [player |-> "P12", username |-> <<"A", "B">>]>>

\* The players of the crowd submit in turn, each a score of its choice.
CrowdSubmit(sc) ==
    /\ script = "board"
    /\ Len(ledger) < MaxBoard /\ answersFresh
    /\ Evaluate(submitTx(Crowd[(Len(ledger) % Len(Crowd)) + 1].player, sc))
    /\ board' = noBoard /\ client' = dismissed(client)
    /\ UNCHANGED <<gameVars, pageVars, pending, rpc>>

\* The page and the chain once the crowd has registered.
BoardInit ==
    /\ script = "board"
    /\ state = createInitialState
    /\ keys = {} /\ loops = 0 /\ shots = 0 /\ hits = <<>> /\ overCalls = <<>>
    /\ animationId = "null"
    /\ registry = [a \in {Crowd[i].player : i \in DOMAIN Crowd} |->
                      Crowd[CHOOSE i \in DOMAIN Crowd : Crowd[i].player = a].username]
    /\ ledger = <<>> /\ now = 0 /\ pending = <<>>
    /\ client = loadedClient(MyName, FALSE)
    /\ board = noBoard /\ lastCall = "none" /\ rpc = noRpc
    /\ page = returningPage /\ wallet = fundedWallet

BoardNext ==
    \/ \E sc \in Scores : CrowdSubmit(sc)
    \/ \E i \in DOMAIN client.loads : \E f \in Faults : GetLeaderboard(i, f)
    \/ \E i \in DOMAIN client.loads : Loaded(i)

BoardSpec == BoardInit /\ [][BoardNext]_vars

\* ------------------------------------------------------------ the embedded wallet
\* The secret keys Keypair.random() may generate; Keypair.fromSecret() throws
\* for every other value.
Secrets == {1, 2}

\* What localStorage may hold when the page is loaded: nothing, the secret of
\* an earlier visit with or without the funded flag, or a value that is not a
\* secret key.
StoredWallets ==
    {[secret |-> <<>>, funded |-> FALSE]}
        \cup {[secret |-> <<k>>, funded |-> f] : k \in {0, 1}, f \in BOOLEAN}

\* getOrCreateWallet() has returned the cached wallet.
answered(w) == [w EXCEPT !.returned = @ \cup {w.cached[1].publicKey}]

\* Mutant: a getOrCreateWallet() that generates a keypair on every call.
getOrCreateWalletAnew(w, k) ==
    answered([w EXCEPT !.cached = <<[publicKey |-> publicKey(k), secretKey |-> k,
                                     funded |-> FALSE]>>,
                       !.secret = <<k>>,
                       !.generated = Min(@ + 1, 2)])

\* getOrCreateWallet() (README.md 242-281) on the wallet w, k being the secret
\* Keypair.random() would generate: the cached wallet, or the one restored
\* from the stored secret, or, when nothing is stored or the stored value is
\* no secret key (both items are removed then), a new one, which is stored.
getOrCreateWallet(w, k) ==
    IF w.cached # <<>> THEN answered(w)
    ELSE IF w.secret # <<>> /\ w.secret[1] \in Secrets
    THEN answered([w EXCEPT !.cached = <<[publicKey |-> publicKey(w.secret[1]),
                                          secretKey |-> w.secret[1],
                                          funded    |-> w.funded]>>])
    ELSE answered([w EXCEPT !.cached = <<[publicKey |-> publicKey(k), secretKey |-> k,
                                          funded |-> FALSE]>>,
                            !.secret = <<k>>,
                            !.funded = IF w.secret # <<>> THEN FALSE ELSE @,
                            !.generated = Min(@ + 1, 2)])

\* The object getOrCreateWallet() has handed to a call, by its keys.
keysOf(w) == [publicKey |-> w.cached[1].publicKey, secretKey |-> w.cached[1].secretKey]

\* wallet.funded = true; cachedWallet = wallet; localStorage.setItem(FUNDED_KEY, "true")
\* (README.md 316-318, 327-329, 341-343), wallet being the object
\* getOrCreateWallet() handed to call c when it began: the cached object,
\* unless importWallet has replaced it since.
markFunded(w, c) ==
    [w EXCEPT !.cached = <<[publicKey |-> c.wallet.publicKey,
                            secretKey |-> c.wallet.secretKey, funded |-> TRUE]>>,
              !.funded = TRUE]

\* The wrappers that begin with await ensureWalletFunded() (README.md 428,
\* 820, 867).
ensuresFunding(fn) == fn \in {"initGame", "registerPlayer", "submitScore"}

\* A contract wrapper from its getOrCreateWallet() to its account lookup
\* (README.md 822-823, the same in every wrapper): the transaction is built
\* for the public key of the wallet getOrCreateWallet() returns.
builds(w) == [w EXCEPT !.wrappers = Append(@, w.cached[1].publicKey)]

\* ensureWalletFunded() has returned, in the turn of an answer of the
\* network, to what awaited it: a wrapper goes on to build its transaction
\* (no other call is made in that turn); cachedWallet is set, as the call
\* began with getOrCreateWallet() in this page.
goesOn(w, c) == IF c.then = "wrapper" THEN builds(answered(w)) ELSE w

\* ensureWalletFunded() up to its fetch (README.md 303-312), awaited by then:
\* init() ("init"), a wrapper ("wrapper") or a caller that does nothing with
\* the wallet afterwards ("caller").  With a funded wallet it returns true
\* without a request; the wrapper that awaits it goes on after the calls
\* that follow in the same task.
ensureWalletFunded(w, k, then) ==
    LET g == getOrCreateWallet(w, k)
    IN  IF g.cached[1].funded
        THEN IF then = "wrapper" THEN [g EXCEPT !.ensured = @ + 1] ELSE g
        ELSE [g EXCEPT !.calls = Append(@, [await |-> "fetch", wallet |-> keysOf(g),
                                           then |-> then])]

\* importWallet(secretKey) up to the fetch of its ensureWalletFunded()
\* (README.md 710-731): Keypair.fromSecret throws for a value that is no
\* secret key, and false is returned with nothing changed.
importWallet(w, s) ==
    IF s \notin Secrets THEN w
    ELSE ensureWalletFunded([w EXCEPT !.secret = <<s>>, !.funded = FALSE,
                                      !.cached = <<[publicKey |-> publicKey(s), secretKey |-> s,
                                                    funded |-> FALSE]>>,
                                      !.imported = TRUE],
                            s, "caller")

\* The wallet in the turn in which the page is loaded (main.ts 704, init()
\* 455-456) with the items w holds in localStorage: cachedWallet is null in
\* the new page and nothing of the page before is in progress;
\* getOrCreateWallet() restores or creates the wallet and
\* ensureWalletFunded() returns at once when it is funded, and waits for
\* Friendbot otherwise.
init(w, k) ==
    ensureWalletFunded([w EXCEPT !.cached = <<>>, !.calls = <<>>, !.ensured = 0,
                                 !.wrappers = <<>>],
                       k, "init")

\* The page p when it is loaded again, until init() has got past the wallet
\* (main.ts 447-456): only what localStorage holds is kept, the game is null.
loading(p) ==
    [p EXCEPT !.input = <<>>, !.modal = FALSE, !.saving = FALSE, !.username = <<>>,
              !.border = "default", !.called = FALSE, !.game = FALSE,
              !.difficultyModal = FALSE]

\* The page p once init() has got past the wallet (main.ts 458-482): the
\* username modal is shown when no username is stored, the difficulty modal
\* when there is a username but no difficulty, and the game is constructed
\* when both are stored.
afterInit(p) ==
    [p EXCEPT !.modal = (p.stored = <<>>),
              !.difficultyModal = (p.stored # <<>> /\ p.difficulty = <<>>),
              !.game = (p.stored # <<>> /\ p.difficulty # <<>>)]

\* The calls of ensureWalletFunded() in progress, those of waiting wrappers
\* included, and the wrappers that have built or are about to.
callsInProgress(w) == Len(w.calls)
wrappersInProgress(w) ==
    Len(w.wrappers) + w.ensured
        + Cardinality({i \in DOMAIN w.calls : w.calls[i].then = "wrapper"})

\* The task that is running has ended: no wrapper is about to go on.  An
\* answer of the network and a load of the page begin a turn of their own.
turnOver == wallet.ensured = 0

walletOnly == UNCHANGED <<gameVars, chainVars, clientVars, lastCall, page>>

\* new SpaceInvadersGame(...) in initializeGame (main.ts 409-445).
NewGame ==
    /\ state' = createInitialState
    /\ keys' = {}
    /\ shots' = 0 /\ hits' = <<>> /\ overCalls' = <<>>
    /\ animationId' = "null"

\* init() from the return of the ensureWalletFunded() it awaits (main.ts
\* 458-482), when call c is that of init() and has returned: currentUsername
\* is the stored username, and with username and difficulty stored the game
\* is constructed.
InitGoesOn(c, returned) ==
    IF c.then = "init" /\ returned
    THEN /\ client' = [client EXCEPT !.username = page.stored]
         /\ page' = afterInit(page)
         /\ IF page'.game THEN NewGame
            ELSE UNCHANGED <<state, keys, shots, hits, overCalls, animationId>>
    ELSE UNCHANGED <<client, page, state, keys, shots, hits, overCalls, animationId>>

\* getWalletAddress() (README.md 286-289) or another caller awaits
\* getOrCreateWallet().
GetOrCreateWallet(k) ==
    /\ script = "wallet"
    /\ wallet' = getOrCreateWallet(wallet, k)
    /\ walletOnly

\* ensureWalletFunded() (README.md 303-349) is called on its own, by a
\* caller that does nothing with the wallet afterwards.
EnsureWalletFunded(k) ==
    /\ script = "wallet"
    /\ wallet' = ensureWalletFunded(wallet, k, "caller")
    /\ callsInProgress(wallet') <= MaxCalls
    /\ walletOnly

\* importWallet(s) is called; it is offered once.
ImportWallet(s) ==
    /\ script = "wallet" /\ ~wallet.imported
    /\ wallet' = importWallet(wallet, s)
    /\ callsInProgress(wallet') <= MaxCalls
    /\ walletOnly

\* Friendbot answers call i (README.md 314-346): ok or status 400 mark the
\* wallet funded, another answer returns false, a thrown error leads to the
\* account lookup.  What awaited the call goes on in the same turn.
Friendbot(i, o) ==
    /\ turnOver
    /\ i \in DOMAIN wallet.calls /\ wallet.calls[i].await = "fetch"
    /\ LET c == wallet.calls[i]
       IN  /\ wallet' = CASE o \in {"ok", "400"} ->
                               goesOn([markFunded(wallet, c) EXCEPT !.calls = without(@, i)], c)
                          [] o = "refused" ->
                               goesOn([wallet EXCEPT !.calls = without(@, i)], c)
                          [] OTHER -> [wallet EXCEPT !.calls[i].await = "account"]
           /\ InitGoesOn(c, o # "throw")
    /\ UNCHANGED <<loops, script, chainVars, pending, board, rpc, lastCall>>

\* server.getAccount answers call i (README.md 337-347).  What awaited the
\* call goes on in the same turn.
Account(i, o) ==
    /\ turnOver
    /\ i \in DOMAIN wallet.calls /\ wallet.calls[i].await = "account"
    /\ LET c == wallet.calls[i]
       IN  /\ wallet' = IF o = "found"
                        THEN goesOn([markFunded(wallet, c) EXCEPT !.calls = without(@, i)], c)
                        ELSE goesOn([wallet EXCEPT !.calls = without(@, i)], c)
           /\ InitGoesOn(c, TRUE)
    /\ UNCHANGED <<loops, script, chainVars, pending, board, rpc, lastCall>>

\* Wrapper fn is called and runs as far as it gets without the network.  One
\* that begins with await ensureWalletFunded() (README.md 820) runs to the
\* fetch of that call when the wallet is not funded, and to the return of
\* that call when it is: its own getOrCreateWallet() comes after what else
\* is called in the same task.  Another wrapper runs to its account lookup
\* (README.md 457-458).
WrapperBegins(fn, k) ==
    /\ script = "wallet"
    /\ wrappersInProgress(wallet) < MaxCalls
    /\ wallet' = IF ensuresFunding(fn) THEN ensureWalletFunded(wallet, k, "wrapper")
                 ELSE builds(getOrCreateWallet(wallet, k))
    /\ callsInProgress(wallet') <= MaxCalls
    /\ walletOnly

\* A wrapper whose ensureWalletFunded() has returned true without a request
\* goes on (README.md 822-823): it awaits getOrCreateWallet() and looks up the
\* account of the wallet cachedWallet is by now.
WrapperBuilds(k) ==
    /\ wallet.ensured > 0
    /\ wallet' = builds(getOrCreateWallet([wallet EXCEPT !.ensured = @ - 1], k))
    /\ walletOnly

\* signAndSubmit of wrapper i (README.md 356-360): the transaction is signed
\* with the secret key of the wallet getOrCreateWallet() returns now.
WrapperSigns(i, k) ==
    /\ turnOver
    /\ i \in DOMAIN wallet.wrappers
    /\ LET w == getOrCreateWallet(wallet, k)
       IN  wallet' = [w EXCEPT !.wrappers = without(@, i),
                               !.signed = @ \cup {<<wallet.wrappers[i], w.cached[1].secretKey>>}]
    /\ walletOnly

\* The page is loaded again (main.ts 704-705, init(); loadLeaderboard(); in
\* one turn): what was in progress is gone and localStorage is what it was;
\* init() restores the wallet and awaits ensureWalletFunded(), and with a
\* funded wallet goes on in the same turn; loadLeaderboard() has called
\* getLeaderboard.
Reload(k) ==
    /\ script = "wallet"
    /\ turnOver
    /\ wallet' = init(wallet, k)
    /\ page' = IF wallet'.calls = <<>> THEN afterInit(loading(page)) ELSE loading(page)
    /\ client' = loadedClient(IF wallet'.calls = <<>> THEN page.stored ELSE <<>>, FALSE)
    /\ NewGame
    /\ loops' = 0
    /\ board' = noBoard /\ lastCall' = "none" /\ rpc' = noRpc
    /\ UNCHANGED <<script, chainVars, pending>>

\* The page at the end of the turn in which it is loaded (main.ts 704-705):
\* init() has restored or created the wallet from what localStorage held and
\* awaits ensureWalletFunded(), or, with a funded wallet, has gone on to
\* construct the game of a returning player; loadLeaderboard() has called
\* getLeaderboard.
WalletInit ==
    /\ script = "wallet"
    /\ state = createInitialState
    /\ keys = {} /\ loops = 0 /\ shots = 0 /\ hits = <<>> /\ overCalls = <<>>
    /\ animationId = "null"
    /\ registry = <<>> /\ ledger = <<>> /\ now = 0 /\ pending = <<>>
    /\ board = noBoard /\ lastCall = "none" /\ rpc = noRpc
    /\ \E s \in StoredWallets, k \in Secrets :
          wallet = init([cached |-> <<>>, secret |-> s.secret, funded |-> s.funded,
                         generated |-> 0, returned |-> {}, calls |-> <<>>, ensured |-> 0,
                         wrappers |-> <<>>, signed |-> {}, imported |-> FALSE], k)
    /\ page = IF wallet.calls = <<>> THEN afterInit(loading(returningPage))
              ELSE loading(returningPage)
    /\ client = loadedClient(IF wallet.calls = <<>> THEN page.stored ELSE <<>>, FALSE)

WalletNext ==
    \/ \E k \in Secrets : GetOrCreateWallet(k)
    \/ \E k \in Secrets : EnsureWalletFunded(k)
    \/ \E s \in Secrets \cup {0} : ImportWallet(s)
    \/ \E i \in 1..MaxCalls : \E o \in {"ok", "400", "refused", "throw"} : Friendbot(i, o)
    \/ \E i \in 1..MaxCalls : \E o \in {"found", "throw"} : Account(i, o)
    \/ \E fn \in Wrappers : \E k \in Secrets : WrapperBegins(fn, k)
    \/ \E k \in Secrets : WrapperBuilds(k)
    \/ \E i \in 1..MaxCalls : \E k \in Secrets : WrapperSigns(i, k)
    \/ \E k \in Secrets : Reload(k)

WalletSpec == WalletInit /\ [][WalletNext]_vars

\* ------------------------------------------------------------ claims
activePlayerCount == Len(activePlayerBullets(state))

\* C1: after any sequence of start(), input processing and update() ticks the
\* ship's x is within [0, field width - ship width] = [0, 750]: moves beyond
\* a boundary saturate at it.
C1_ShipWithinField == 0 <= state.ship.x /\ state.ship.x <= PX(750)

\* C1 witness: the ship rests on the left boundary with only a left key held
\* and a frame callback pending, so that further moves saturate.
C1_Witness ==
    /\ state.ship.x = 0
    /\ leftHeld(keys) /\ ~rightHeld(keys)
    /\ loops > 0 /\ ~state.gameOver

\* n calls of processInput with the keys ks held.
RECURSIVE inputSteps(_, _, _)
inputSteps(s, ks, n) ==
    IF n = 0 THEN s
    ELSE IF n = 1 THEN processInput(s, ks)
    ELSE LET half == inputSteps(s, ks, n \div 2)
         IN  IF half.gameOver THEN half ELSE inputSteps(half, ks, n - n \div 2)

\* C2: from the canonical initial state, and from every state of a game in
\* which no update has run yet, 100 consecutive move-right steps leave ship.x
\* exactly 750 and 100 consecutive move-left steps leave it exactly 0.
C2_HundredMovesSaturate ==
    state.tick = 0 =>
        /\ inputSteps(state, {"ArrowRight"}, Moves).ship.x = PX(750)
        /\ inputSteps(state, {"ArrowLeft"}, Moves).ship.x = 0

\* C2 witness: in a game just started (no update yet, one callback) the ship
\* has been driven to 750 and only the right key is held.
C2_Witness ==
    /\ script = "steer" /\ loops = 1 /\ state.tick = 0
    /\ keys = {"ArrowRight"}
    /\ state.ship.x = PX(750)

\* C3: at most 3 player bullets are active in any reachable state, and after
\* 5 shoot() calls with no update between them exactly 3 are active.
C3_PlayerBulletCap ==
    /\ activePlayerCount <= 3
    /\ shots = ShotCap => activePlayerCount = 3

\* C3 witness: 5 shoot() calls were made since the last update.
C3_Witness == script = "burst" /\ shots = ShotCap /\ activePlayerCount = 3

\* C4: once gameOver is true every operation but start() leaves the whole
\* GameState unchanged (so gameOver stays true); only start() changes it.
C4_OverIsTerminal ==
    [][state.gameOver /\ state' # state => loops' = loops + 1 /\ ~state'.gameOver]_vars

\* C4 witness: the game is over, space and a left key were pressed after it
\* ended, and a gameLoop callback of an earlier start() is still pending.
C4_Witness ==
    /\ state.gameOver
    /\ script = "duck" /\ keys = {" ", "ArrowLeft"}
    /\ loops = 1

\* C5 (the claim as stated): lives == 0 implies gameOver and not won.
C5_LivesZeroIsLoss == state.lives = 0 => state.gameOver /\ ~state.won

\* The point value the claims give invader n (by its row): 30, 20, 20, 10, 10.
claimedPoints(n) ==
    LET row == (n - 1) \div 11
    IN  IF row = 0 THEN 30 ELSE IF row \in {1, 2} THEN 20 ELSE 10

\* The sum of the claimed point values of the invaders in S.
RECURSIVE claimedSum(_)
claimedSum(S) ==
    IF S = {} THEN 0
    ELSE LET n == CHOOSE x \in S : TRUE IN claimedPoints(n) + claimedSum(S \ {n})

inactiveSet == {n \in DOMAIN state.invaders : ~state.invaders[n].active}

\* C6: when no invader is active the game is over and won, and won holds
\* only when the game is over and all 55 invaders are inactive.
C6_WinIffCleared ==
    /\ activeCount(state) = 0 => state.gameOver /\ state.won
    /\ state.won => state.gameOver /\ Cardinality(inactiveSet) = 55

\* C6 witness: a game won by destroying every invader.
C6_Witness == state.won /\ activeCount(state) = 0 /\ state.score = 990

\* C7: in one update() no player bullet is credited with two invaders.
C7_OneHitPerBullet ==
    \A a, b \in DOMAIN hits : a # b => hits[a][1] # hits[b][1]

\* C7 witness: an update in which a bullet destroyed an invader.
C7_Witness == Len(hits) >= 1 /\ state.score > 0

\* C8: the score is the sum of the point values (30 squid row, 20 crab rows,
\* 10 octopus rows) of the inactive invaders: a multiple of 10, at most 990.
C8_ScoreIsSumOfKills ==
    /\ state.score = claimedSum(inactiveSet)
    /\ state.score % 10 = 0
    /\ state.score <= 990

\* C8 witness: invaders of all three types have been destroyed.
C8_Witness ==
    /\ \E n \in inactiveSet : state.invaders[n].type = "squid"
    /\ \E n \in inactiveSet : state.invaders[n].type = "crab"
    /\ \E n \in inactiveSet : state.invaders[n].type = "octopus"
    /\ activeCount(state) > 0

\* The canonical gameplay state the claims describe, but for the ship's x.
canonicalBut(s) ==
    /\ DOMAIN s.invaders = 1 .. 55
    /\ \A n \in 1 .. 55 :
          /\ s.invaders[n].active
          /\ 2 * s.invaders[n].x = PX(195) + ((n - 1) % 11) * PX(110)
          /\ s.invaders[n].y = PX(60) + ((n - 1) \div 11) * PX(45)
          /\ s.invaders[n].type = (CASE n <= 11 -> "squid" [] n <= 33 -> "crab" [] OTHER -> "octopus")
    /\ s.bullets = <<>>
    /\ s.score = 0 /\ s.lives = 3 /\ s.tick = 0
    /\ s.invaderDirection = 1
    /\ ~s.gameOver /\ ~s.won
    /\ s.ship.y = PX(550)

\* C9 (the claim as stated): start() yields the canonical state with the
\* ship centred (x = 375), whatever the state it is called in.
C9_StartIsCanonical ==
    [][loops' = loops + 1 => canonicalBut(state') /\ state'.ship.x = PX(375)]_vars

\* C9 (amended): start() yields the canonical state, with the ship centred
\* when no movement key (or both a left and a right key) is held and one
\* step (8) left or right of the centre when a left or a right key is held;
\* the state it yields depends on the held keys only, so that a second
\* start() in a row yields the same state.
C9_StartIsCanonicalButInput ==
    [][loops' = loops + 1 =>
        /\ canonicalBut(state')
        /\ state'.ship.x = PX(375) + (IF leftHeld(keys) = rightHeld(keys) THEN 0
                                      ELSE IF leftHeld(keys) THEN -PX(8) ELSE PX(8))]_vars

\* C9 witness: a restart (a second callback is pending) with a left key held.
C9_Witness ==
    /\ loops = 2 /\ leftHeld(keys) /\ ~rightHeld(keys)
    /\ canonicalBut(state) /\ state.ship.x = PX(367)

\* C10: a sweep moves every invader it moves the same way: all sideways by
\* direction * 15 with direction kept, or all down by 25 with direction
\* negated once.  (The invaders a sweep moves are those active after it.)
C10_SweepAtomic ==
    [][state'.tick = state.tick + 1 /\ state'.tick % 25 = 0 =>
        LET A == {n \in DOMAIN state'.invaders : state'.invaders[n].active}
            d == state.invaderDirection
        IN  \/ /\ \A n \in A : /\ state'.invaders[n].x = state.invaders[n].x + d * PX(15)
                               /\ state'.invaders[n].y = state.invaders[n].y
               /\ state'.invaderDirection = d
            \/ /\ \A n \in A : /\ state'.invaders[n].x = state.invaders[n].x
                               /\ state'.invaders[n].y = state.invaders[n].y + PX(25)
               /\ state'.invaderDirection = -d]_vars

\* C10 witness: the grid has swept sideways seven times and then descended.
C10_Witness ==
    /\ state.tick = 200 /\ state.invaderDirection = -1
    /\ state.invaders[1].y = PX(85) /\ state.invaders[55].y = PX(265)

\* The invaders that are active and at the ship's row (y >= ship.y - 30) in s.
landedIn(s) ==
    {n \in DOMAIN s.invaders :
        s.invaders[n].active /\ s.invaders[n].y >= s.ship.y - PX(30)}

\* C11: when an active invader's y has reached the ship's row (y >= ship.y -
\* 30), which only a sweep brings about, the game is over and not won in that
\* very state, whatever the value of lives.
C11_InvasionIsLoss ==
    landedIn(state) # {} => state.gameOver /\ ~state.won

\* C11 witness: the grid landed on a player who never lost a life.
C11_Witness ==
    /\ landedIn(state) # {} /\ state.lives = 3
    /\ state.tick % 25 = 0 /\ state.gameOver /\ ~state.won

\* The state checkCollisions runs on in update() of s (lines 239-266).
preCollision(s) == moveBullets([s EXCEPT !.tick = @ + 1])

\* What the claims compare after the collisions of one tick.
outcome(s) ==
    LET r == checkCollisions(idle(s)).st
    IN  [score    |-> r.score,
         lives    |-> r.lives,
         invaders |-> {r.invaders[i] : i \in {j \in DOMAIN r.invaders : r.invaders[j].active}},
         bullets  |-> {r.bullets[i] : i \in {j \in DOMAIN r.bullets : r.bullets[j].active}}]

\* Permutations of 1..n: the identity and the reversal; with the exchanges
\* of two neighbours.
ends(n) == {[i \in 1 .. n |-> i], [i \in 1 .. n |-> n + 1 - i]}

reorderings(n) ==
    ends(n) \cup
    {[i \in 1 .. n |-> IF i = a THEN a + 1 ELSE IF i = a + 1 THEN a ELSE i] : a \in 1 .. n - 1}

reordered(seq, p) == [i \in DOMAIN seq |-> seq[p[i]]]

\* C12 (the claim as stated): for the state update() is about to run on,
\* reordering the bullet list and the invader list leaves the score, the
\* lives, the set of active invaders and the set of active bullets after the
\* tick's collisions the same.
C12_CollisionOrderIndependent ==
    loops > 0 /\ ~state.gameOver =>
        LET pre == preCollision(processInput(state, keys))
        IN  \A p \in reorderings(Len(pre.bullets)) :
                \A q \in ends(Len(pre.invaders)) :
                    outcome([pre EXCEPT !.bullets = reordered(@, p),
                                        !.invaders = reordered(@, q)]) = outcome(pre)

\* The gameplay states a due frame can leave, one for each value Math.random
\* can give it.
frameOutcomes == {update(processInput(state, keys), k).st : k \in frameChoices(TRUE)}

\* C13 (the claim as stated): the gameplay state after an operation is a
\* function of the state before it and the operation: a frame whose update is
\* due has one outcome, so that two copies of the game stay equal.
C13_Deterministic ==
    loops > 0 /\ offersFrame(TRUE) => Cardinality(frameOutcomes) = 1

\* The sum of the scores of the entries of e at the positions in S.
RECURSIVE sumScores(_, _)
sumScores(e, S) ==
    IF S = {} THEN 0
    ELSE LET i == CHOOSE x \in S : TRUE IN e[i].score + sumScores(e, S \ {i})

\* The sum of the totals of the rows at the positions in S.
RECURSIVE sumTotals(_, _)
sumTotals(rows, S) ==
    IF S = {} THEN 0
    ELSE LET i == CHOOSE x \in S : TRUE IN rows[i].totalScore + sumTotals(rows, S \ {i})

\* The total the aggregation of loadLeaderboard holds for username u before
\* the rows are sorted and cut to the first ten: that of the Map's value under
\* u in capitals (0 when there is none).
totalOf(u) ==
    sumTotals(board.totals, {i \in DOMAIN board.totals : board.totals[i].key = toUpperCase(u)})

\* The entries of the ledger that loadLeaderboard has fetched and rendered:
\* the ledger only grows at its end, so they are its first ones.
fetched == SubSeq(ledger, 1, Min(Len(board.entries), Len(ledger)))

\* C14 (the claim as stated): for every username of the ledger entries
\* fetched, the total of the aggregation equals the sum of the scores of the
\* entries carrying that username; a row that is shown shows that total; and
\* the totals before truncation add up to the sum of all scores.
C14_TotalPerUsername ==
    LET e == fetched
    IN  /\ \A i \in DOMAIN e :
              totalOf(e[i].username)
                  = sumScores(e, {j \in DOMAIN e : e[j].username = e[i].username})
        /\ \A r \in DOMAIN board.rows :
              board.rows[r].totalScore = totalOf(board.rows[r].username)
        /\ sumTotals(board.totals, DOMAIN board.totals) = sumScores(e, DOMAIN e)

\* C14 (amended): usernames are compared without regard to case: the total of
\* the aggregation for a username of the ledger equals the sum of the scores
\* of the entries whose username is the same in capitals; a row that is shown
\* shows that total; and the totals before truncation add up to the sum of
\* all scores.
C14_TotalPerUsernameInCapitals ==
    LET e == fetched
    IN  /\ \A i \in DOMAIN e :
              totalOf(e[i].username)
                  = sumScores(e, {j \in DOMAIN e :
                                    toUpperCase(e[j].username) = toUpperCase(e[i].username)})
        /\ \A r \in DOMAIN board.rows :
              board.rows[r].totalScore = totalOf(board.rows[r].username)
        /\ sumTotals(board.totals, DOMAIN board.totals) = sumScores(e, DOMAIN e)

\* C14 witness: twelve entries are fetched, those of 100 and 50 of usernames
\* that are the same in capitals make one total of 150, the eleven totals
\* are cut to ten rows, and the username left out has its total of 50.
C14_Witness ==
    /\ Len(board.entries) = 12 /\ Len(board.totals) = 11 /\ Len(board.rows) = 10
    /\ ledger[1].username # ledger[12].username
    /\ ledger[1].score = 100 /\ ledger[12].score = 50
    /\ totalOf(ledger[1].username) = 150
    /\ \E k \in DOMAIN fetched :
          /\ totalOf(ledger[k].username) = 50
          /\ \A r \in DOMAIN board.rows :
                board.rows[r].key # toUpperCase(ledger[k].username)

\* C15: a submit_score call for an address that is not registered is
\* Rejected and leaves the ledger as it was, and a submission of this client
\* that the contract rejects is never shown to the player as a success.
C15_UnregisteredSubmitFails ==
    [][/\ lastCall' = "Rejected" => ledger' = ledger
       /\ client'.rejected => client'.shown # "SCORE SUBMITTED"]_vars

\* Whether sequence a is the beginning of sequence b.
isPrefix(a, b) == Len(a) <= Len(b) /\ SubSeq(b, 1, Len(a)) = a

\* The chain answers a get_leaderboard call of the client in this step.
answersNow(i) ==
    /\ i \in DOMAIN client.loads /\ i \in DOMAIN client'.loads
    /\ Len(client'.loads) = Len(client.loads)
    /\ client.loads[i].pc = "called" /\ client'.loads[i].pc = "answered"

\* C16: the ledger only grows at its end: whatever call is made, every entry
\* stays at its position with its player, username, score and timestamp; the
\* entries get_leaderboard answers with (when the call does not fail) are the
\* ledger's, in append order; and the entries that are rendered when the
\* answer has arrived are a beginning of the ledger as it is by then.
C16_AppendOnly ==
    [][/\ isPrefix(ledger, ledger')
       /\ \A i \in DOMAIN client.loads :
             answersNow(i) => client'.loads[i].entries \in {<<>>, ledger}
       /\ isPrefix(board'.entries, ledger')]_vars

\* C16 witness: two different entries were appended at different times and
\* fetched in that order.
C16_Witness ==
    /\ Len(ledger) = 2 /\ board.entries = ledger
    /\ ledger[1].player # ledger[2].player
    /\ ledger[1].timestamp < ledger[2].timestamp

enemyBullets(s) == SelectSeq(s.bullets, LAMBDA b : b.active /\ ~b.isPlayer)

\* C18: lives is always one of 0, 1, 2, 3, whatever the number of enemy
\* bullets in flight, and no step other than start() raises it.
C18_LivesUnsigned ==
    [][/\ state'.lives \in 0 .. INITIAL_LIVES
       /\ loops' # loops + 1 => state'.lives <= state.lives]_vars

\* C18 witness: the last life is lost while another enemy bullet is in flight.
C18_Witness ==
    state.lives = 0 /\ state.gameOver /\ Len(enemyBullets(state)) >= 1

\* The state after a player bullet is appended to s at x.
withPlayerBullet(s, x) ==
    [s EXCEPT !.bullets = Append(@, [x |-> x, y |-> s.ship.y - PX(BULLET_HEIGHT),
                                      active |-> TRUE, isPlayer |-> TRUE])]

\* A step in which shoot() is called with fewer active player bullets than the cap.
shootSucceeds == shots' = shots + 1 /\ activePlayerCount < PLAYER_BULLET_CAP

\* C19 (the claim as stated): a successful shoot() appends one active player
\* bullet at x = ship.x, y = ship.y - bullet height, and changes nothing else.
C19_BulletAtShipX ==
    [][shootSucceeds => state' = withPlayerBullet(state, state.ship.x)]_vars

\* C19 (amended): a successful shoot() appends one active player bullet
\* centred on the ship, at x = ship.x + 25 - 3, y = ship.y - bullet height,
\* and changes nothing else.
C19_BulletAtShipCentre ==
    [][shootSucceeds => state' = withPlayerBullet(state, state.ship.x + PX(22))]_vars

\* C19 witness: a bullet has just been fired from a ship that has left the
\* centre of the field.
C19_Witness ==
    /\ shots = 1 /\ state.ship.x # PX(375) /\ state.bullets # <<>>
    /\ LET b == state.bullets[Len(state.bullets)]
       IN  /\ b.isPlayer /\ b.active
           /\ b.x = state.ship.x + PX(22)
           /\ b.y = state.ship.y - PX(BULLET_HEIGHT)

\* C20: on a sweep tick the grid descends and reverses if and only if the
\* tentative x (x + direction * 15) of some active invader lies outside
\* [0, 760]; otherwise every active invader moves sideways.
C20_DescendIffOutside ==
    [][state'.tick = state.tick + 1 /\ state'.tick % SWEEP_PERIOD = 0 =>
        LET A == {n \in DOMAIN state'.invaders : state'.invaders[n].active}
            d == state.invaderDirection
            tentative(n) == state.invaders[n].x + d * PX(SWEEP_STEP)
            outside  == \E n \in A : tentative(n) < 0
                                        \/ tentative(n) > PX(CANVAS_WIDTH - INVADER_WIDTH)
            descends == /\ state'.invaderDirection = -d
                        /\ \A n \in A :
                              /\ state'.invaders[n].x = state.invaders[n].x
                              /\ state'.invaders[n].y = state.invaders[n].y + PX(DESCEND_STEP)
            sideways == /\ state'.invaderDirection = d
                        /\ \A n \in A :
                              /\ state'.invaders[n].x = tentative(n)
                              /\ state'.invaders[n].y = state.invaders[n].y
        IN  (outside <=> descends) /\ (~outside => sideways)]_vars

\* C20 witness: after the descent at the right wall the grid has swept left
\* thirteen times and descended at the left wall.
C20_Witness ==
    /\ state.tick = 550 /\ state.invaderDirection = 1
    /\ state.invaders[1].active /\ state.invaders[1].x = PX(7) + 1
    /\ state.invaders[1].y = PX(GRID_TOP + 2 * DESCEND_STEP)

\* The invaders active after the step.
activeAfter == {n \in DOMAIN state'.invaders : state'.invaders[n].active}

\* The step moved an invader that is active after it.
swept ==
    \E n \in activeAfter : \/ state'.invaders[n].x # state.invaders[n].x
                            \/ state'.invaders[n].y # state.invaders[n].y

\* A step of update() on an Active game: the only step but start() that
\* changes the tick counter.
ticked == state'.tick # state.tick /\ loops' # loops + 1

\* The enemy bullets of the list after the step that are not bullets of the
\* list before it (moved, when the step is an update).
newEnemyBullets ==
    {state'.bullets[i] : i \in {j \in DOMAIN state'.bullets : ~state'.bullets[j].isPlayer}}
        \ {IF ticked THEN moveBullet(state.bullets[i]) ELSE state.bullets[i] :
               i \in DOMAIN state.bullets}

\* C21 (the claim as stated): an Active update adds exactly 1 to the tick
\* counter, and it sweeps and fires according to the value the counter had
\* when the update started.
C21_ConditionsOnOldTick ==
    [][ticked =>
        /\ state'.tick = state.tick + 1
        /\ activeAfter # {} =>
              /\ swept <=> state.tick % SWEEP_PERIOD = 0
              /\ newEnemyBullets # {} <=> state.tick % FIRE_PERIOD = 0]_vars

\* C21 (amended): an Active update adds exactly 1 to the tick counter first,
\* and it sweeps and fires according to the incremented value.
C21_ConditionsOnNewTick ==
    [][ticked =>
        /\ state'.tick = state.tick + 1
        /\ activeAfter # {} =>
              /\ swept <=> state'.tick % SWEEP_PERIOD = 0
              /\ newEnemyBullets # {} <=> state'.tick % FIRE_PERIOD = 0]_vars

\* C21 witness: the fiftieth update has swept the grid a second time and fired.
C21_Witness ==
    /\ state.tick = FIRE_PERIOD /\ state.invaders[1].x = startX + 2 * PX(SWEEP_STEP)
    /\ \E i \in DOMAIN state.bullets : ~state.bullets[i].isPlayer

\* The number of enemy bullets in the list of s.
enemyCount(s) == Len(SelectSeq(s.bullets, LAMBDA b : ~b.isPlayer))

\* Where the invaders of s are, active or not.
positions(s) == [n \in DOMAIN s.invaders |-> <<s.invaders[n].x, s.invaders[n].y>>]

\* C22: outside start(), invader positions and the sweep direction change
\* only in an update whose tick counter is a multiple of 25, and the number
\* of enemy bullets grows only in an update whose tick counter is a multiple
\* of 50, by one bullet, which is the only new one.
C22_SweepAndFireOnlyOnPeriod ==
    [][loops' # loops + 1 =>
        /\ positions(state') # positions(state)
               \/ state'.invaderDirection # state.invaderDirection
              => ticked /\ state'.tick % SWEEP_PERIOD = 0
        /\ newEnemyBullets # {} \/ enemyCount(state') > enemyCount(state)
              => /\ ticked /\ state'.tick % FIRE_PERIOD = 0
                 /\ Cardinality(newEnemyBullets) = 1
                 /\ enemyCount(state') <= enemyCount(state) + 1]_vars

\* C22 witness: the update after the first enemy fire leaves the grid where
\* the second sweep put it and only moves the enemy bullet.
C22_Witness ==
    /\ state.tick = FIRE_PERIOD + 1 /\ enemyCount(state) = 1
    /\ state.invaders[1].x = startX + 2 * PX(SWEEP_STEP)
    /\ \E n \in DOMAIN state.invaders :
          state.bullets[Len(state.bullets)].y
              = state.invaders[n].y + PX(INVADER_HEIGHT) + PX(ENEMY_BULLET_SPEED)

\* Invader inv lies inside the field.
insideField(inv) ==
    /\ 0 <= inv.x /\ inv.x <= PX(CANVAS_WIDTH - INVADER_WIDTH)
    /\ 0 <= inv.y /\ inv.y + PX(INVADER_HEIGHT) <= PX(CANVAS_HEIGHT)

\* C23: every active invader is inside the field: 0 <= x <= 760, 0 <= y and
\* y + 30 <= 600.
C23_InvadersInsideField ==
    \A n \in DOMAIN state.invaders :
        state.invaders[n].active => insideField(state.invaders[n])

\* C23 witness: the grid has landed beside a wall: an active invader has its
\* lower side at 570 and another is 7.5 from the left or the right wall.
C23_Witness ==
    /\ \E n \in DOMAIN state.invaders :
          /\ state.invaders[n].active
          /\ state.invaders[n].y + PX(INVADER_HEIGHT) = PX(570)
    /\ \E n \in DOMAIN state.invaders :
          /\ state.invaders[n].active
          /\ state.invaders[n].x \in {PX(7) + 1, PX(752) + 1}

\* C24: the invader collection always holds 55 cells; except by start(), no
\* step changes an invader's type or makes an inactive invader active, so the
\* number of active invaders never grows.
C24_GridIsFixed ==
    [][/\ Len(state'.invaders) = NumInvaders
       /\ Len(state.invaders) = NumInvaders
       /\ loops' # loops + 1 =>
             /\ \A n \in DOMAIN state.invaders :
                   /\ state'.invaders[n].type = state.invaders[n].type
                   /\ state'.invaders[n].active => state.invaders[n].active
             /\ activeCount(state') <= activeCount(state)]_vars

\* C24 witness: 54 invaders were destroyed and the 55 cells are still there,
\* the last active one still of its type.
C24_Witness ==
    /\ Len(state.invaders) = NumInvaders /\ activeCount(state) = 1 /\ ~state.gameOver
    /\ \A n \in DOMAIN state.invaders :
          state.invaders[n].type = invaderType((n - 1) \div INVADER_COLS)

\* The bullets of s that the next update moves out of the field.
leaving(s) == {i \in DOMAIN s.bullets : s.bullets[i].active /\ ~moveBullet(s.bullets[i]).active}

\* s without its bullets at the positions in S.
withoutBullets(s, S) ==
    LET keep(i) == i \notin S
        RECURSIVE pick(_)
        pick(i) == IF i > Len(s.bullets) THEN <<>>
                   ELSE (IF keep(i) THEN <<s.bullets[i]>> ELSE <<>>) \o pick(i + 1)
    IN  [s EXCEPT !.bullets = pick(1)]

\* C25: the bullet list holds active bullets only, and an update in which
\* bullets leave the field ends in the state it would end in had those
\* bullets not been in the list: they change neither score nor lives nor
\* invaders, and they are gone from the list.
C25_OnlyActiveBullets ==
    /\ \A i \in DOMAIN state.bullets : state.bullets[i].active
    /\ loops > 0 /\ ~state.gameOver =>
          LET s == processInput(state, keys)
          IN  \A k \in frameChoices(TRUE) :
                  update(s, k).st = update(withoutBullets(s, leaving(s)), k).st

\* C25 witness: the first enemy bullet, fired at tick 50 from y = 90, missed
\* the ship and left the field in update 136; the list holds the second one.
C25_Witness ==
    /\ script = "idle" /\ state.tick = 136
    /\ Len(state.bullets) = 1 /\ state.lives = INITIAL_LIVES /\ state.score = 0

\* Bullet b is where an enemy bullet of invader inv starts: under the middle
\* of its lower side.
originOf(b, inv) ==
    /\ b.x = inv.x + PX(INVADER_WIDTH) \div 2 - PX(BULLET_WIDTH) \div 2
    /\ b.y = inv.y + PX(INVADER_HEIGHT)

\* C26: an enemy bullet is added only when an invader is active after the
\* collisions and the sweep of the tick, and it starts at the position such
\* an invader has then; an invader destroyed in the tick does not fire.
C26_ShooterIsActive ==
    [][\A b \in newEnemyBullets :
          \E n \in activeAfter : originOf(b, state'.invaders[n])]_vars

\* C26 witness: in a firing tick a player bullet destroyed an invader and
\* the enemy bullet fired starts under an invader that is still active.
C26_Witness ==
    /\ state.tick > 0 /\ state.tick % FIRE_PERIOD = 0 /\ hits # <<>>
    /\ \E i \in DOMAIN state.bullets : \E n \in DOMAIN state.invaders :
          /\ ~state.bullets[i].isPlayer /\ state.invaders[n].active
          /\ originOf(state.bullets[i], state.invaders[n])

\* C27: the list never holds more than 3 player bullets, 2 enemy bullets,
\* 5 bullets in all.
C27_BulletListBounded ==
    /\ playerBulletCount(state) <= PLAYER_BULLET_CAP
    /\ enemyCount(state) <= 2
    /\ Len(state.bullets) <= 5

\* C27 witness: three player bullets and two enemy bullets are in flight.
C27_Witness ==
    /\ Len(state.bullets) = 5
    /\ playerBulletCount(state) = 3 /\ enemyCount(state) = 2

\* C28: a moveShip call whose transaction succeeded resolves to the x the
\* contract reported; no call resolves to its direction argument; and what a
\* failed call resolves to is not a position of the ship.
C28_MoveShipReportsPosition ==
    rpc.fn = "moveShip" /\ rpc.pc = "done" =>
        /\ rpc.succeeded => rpc.ret = rpc.reported
        /\ rpc.ret # <<rpc.arg>>
        /\ rpc.failure # "none" => rpc.ret[1] \notin Positions

\* signAndSubmit is running.
submitting == rpc.pc \in {"send", "wait", "poll"}

\* What a step of signAndSubmit does, by the answer it gets.
pollingRules ==
    /\ rpc'.polls # rpc.polls /\ rpc'.fn = rpc.fn =>
          /\ rpc.pc = "wait" /\ ~fireAndForget(rpc.fn)
          /\ rpc'.polls = rpc.polls + 1 /\ rpc'.pc = "poll"
    /\ rpc.pc = "poll" /\ rpc' # rpc =>
          /\ rpc'.answer = "SUCCESS" => rpc'.pc = "done" /\ rpc'.thrown = "none"
          /\ rpc'.answer = "FAILED" =>
                rpc'.pc = "done" /\ rpc'.thrown = "Transaction failed on chain"
          /\ rpc'.answer = "NOT_FOUND" /\ rpc.polls < maxAttempts => rpc'.pc = "wait"
          /\ rpc'.answer = "NOT_FOUND" /\ rpc.polls = maxAttempts =>
                rpc'.pc = "done" /\ rpc'.thrown = "Transaction timeout"
          /\ rpc'.polls = rpc.polls
    /\ rpc'.thrown = "Transaction timeout" /\ rpc' # rpc =>
          rpc.pc = "poll" /\ rpc.polls = maxAttempts /\ rpc'.answer = "NOT_FOUND"
    /\ rpc'.answer = "ERROR" /\ rpc' # rpc =>
          rpc'.pc = "done" /\ rpc'.thrown = "Transaction failed" /\ rpc'.polls = 0

\* C29: signAndSubmit always terminates: it polls getTransaction at most 30
\* times, returns at the poll that reports SUCCESS, throws at the poll that
\* reports FAILED, polls again after NOT_FOUND, throws "Transaction timeout"
\* after a 30th inconclusive poll, and throws without a poll when the
\* submission is answered with ERROR.
C29_PollingTerminates ==
    /\ [](rpc.polls <= maxAttempts)
    /\ [][pollingRules]_vars
    /\ submitting ~> rpc.pc = "done"

\* C29 witness: thirty polls answered NOT_FOUND, then the timeout.
C29_Witness ==
    /\ rpc.pc = "done" /\ rpc.thrown = "Transaction timeout"
    /\ rpc.polls = maxAttempts /\ rpc.answer = "NOT_FOUND"

\* C30: initGame, shoot, updateTick, registerPlayer and submitScore resolve
\* to false whenever account lookup, preparation, submission or polling
\* failed, and to true only when sendTransaction accepted the transaction
\* (status other than ERROR).
C30_WrappersReportFailure ==
    rpc.pc = "done" /\ rpc.fn # "moveShip" =>
        /\ rpc.failure # "none" => rpc.ret = <<FALSE>>
        /\ rpc.ret = <<TRUE>> => rpc.accepted

\* A username of 2 to 16 characters.
validLength(u) == 2 <= Len(u) /\ Len(u) <= 16

\* C31: the save-username handler calls registerPlayer, stores the username
\* and proceeds exactly when the trimmed username has 2 to 16 characters; for
\* a shorter or longer input it sends no registration, stores nothing and
\* leaves currentUsername as it is; so every username passed to
\* registerPlayer, by the save handler or by the submit handler, and every
\* username this client registers has 2 to 16 characters.
C31_UsernameLengthEnforced ==
    /\ [](/\ page.saving => validLength(page.username)
          /\ (\E h \in DOMAIN client.runs : client.runs[h].pc = "registering")
                => validLength(client.username)
          /\ \A i \in DOMAIN pending :
                pending[i].op = "register_player" => validLength(pending[i].username)
          /\ is_registered(registry, Me) => validLength(registry[Me]))
    /\ [][SaveClick =>
            IF validLength(trim(page.input))
            THEN page'.saving /\ page'.username = trim(page.input)
            ELSE /\ ~page'.saving /\ page'.stored = page.stored
                 /\ client'.username = client.username
                 /\ pending' = pending]_vars
    /\ [][page.saving /\ ~page'.saving =>
            page'.stored = page.username /\ client'.username = page.username]_vars

\* C31 witness: an input that was too short has been refused, a username of
\* 16 characters has been saved, stored and registered on chain.
C31_Witness ==
    /\ page.border = "#ff0066"
    /\ Len(client.username) = 16 /\ page.stored = client.username
    /\ is_registered(registry, Me) /\ registry[Me] = client.username

\* The username of an entry or a row as the leaderboard compares it.
keyOf(u) == toUpperCase(u)

\* C32: the rendered leaderboard has at most 10 rows, no two rows carry the
\* same username in capitals, the totals do not increase from one row to the
\* next, and no username left out has a total (the sum of the scores of its
\* entries) larger than that of a row shown.
C32_TopTenRows ==
    LET e    == board.entries
        rows == board.rows
    IN  /\ Len(rows) <= 10
        /\ \A i, j \in DOMAIN rows : i # j => keyOf(rows[i].username) # keyOf(rows[j].username)
        /\ \A i, j \in DOMAIN rows : i < j => rows[i].totalScore >= rows[j].totalScore
        /\ \A k \in DOMAIN e :
              (\A i \in DOMAIN rows : keyOf(rows[i].username) # keyOf(e[k].username)) =>
                  \A i \in DOMAIN rows :
                      sumScores(e, {j \in DOMAIN e : keyOf(e[j].username) = keyOf(e[k].username)})
                          <= rows[i].totalScore

\* C32 witness: twelve entries of eleven usernames are rendered as ten rows,
\* the first a total of two entries and larger than the last, and the
\* username left out has a smaller total than the last row.
C32_Witness ==
    /\ Len(board.entries) = 12 /\ Len(board.rows) = 10
    /\ board.rows[1].totalScore = 150
    /\ board.rows[10].totalScore = 100
    /\ \E k \in DOMAIN board.entries :
          /\ board.entries[k].score = 50
          /\ \A i \in DOMAIN board.rows :
                keyOf(board.rows[i].username) # keyOf(board.entries[k].username)

\* Run h of the submit handler prepares and sends its submit_score in this step.
sendsSubmission(h) ==
    /\ client.runs[h].pc = "submitting"
    /\ Len(client'.runs) = Len(client.runs)
    /\ client'.runs[h].pc = "submitted"

\* C33 (the claim as stated): in the score-submission flow the stretch that
\* prepares and sends submit_score runs only when no register_player
\* transaction of this client is still waiting to be applied by the chain.
C33_SubmitAfterRegistration ==
    [][\A h \in DOMAIN client.runs :
          sendsSubmission(h) =>
              \A i \in DOMAIN pending : pending[i].op # "register_player"]_vars

\* C34 (the claim as stated): after any interleaving of start() calls and
\* animation-frame callbacks at most one gameLoop callback is pending.
C34_OneLoop == loops <= 1

\* C35 (the claim as stated): onGameOver is invoked exactly once per game, at
\* the transition from Active to Over, and its won argument is the final value
\* of state.won.
C35_OneGameOverCall ==
    /\ state.gameOver <=> Len(overCalls) = 1
    /\ Len(overCalls) <= 1
    /\ \A i \in DOMAIN overCalls : overCalls[i] = state.won

\* C36 (the claim as stated): for each game at most one submit_score
\* transaction is sent with its score; a run of the submit handler begins
\* from the enabled submit button only and disables it; and the button is
\* enabled again only by a game-over event or, without a new game, by a run
\* whose registration failed while no submission has been sent for the game.
C36_OneSubmissionPerGame ==
    [][/\ client'.sent <= 1
       /\ Len(client'.runs) > Len(client.runs) => client.enabled /\ ~client'.enabled
       /\ client'.enabled /\ ~client.enabled =>
             \/ Len(overCalls') > Len(overCalls)
             \/ client'.shown = "Failed to register" /\ client.sent = 0]_vars

\* The row and the column of the initial grid invader n was created in.
rowOf(n) == (n - 1) \div INVADER_COLS
colOf(n) == (n - 1) % INVADER_COLS

\* C37: the invader formation is rigid: any two active invaders are as far
\* from each other in x and in y as in the initial grid, 55 px for each column
\* and 45 px for each row between them.
\* (Every active invader is compared with one of them, which settles every pair.)
C37_FormationIsRigid ==
    LET A == {i \in DOMAIN state.invaders : state.invaders[i].active}
    IN  A # {} =>
            LET j == CHOOSE k \in A : TRUE
            IN  \A i \in A :
                    /\ state.invaders[i].x - state.invaders[j].x = PX(55) * (colOf(i) - colOf(j))
                    /\ state.invaders[i].y - state.invaders[j].y = PX(45) * (rowOf(i) - rowOf(j))

\* C37 witness: the grid has descended and is on its way back to the left,
\* an invader has been destroyed and invaders of different rows and columns
\* are still active.
C37_Witness ==
    /\ state.invaderDirection = -1
    /\ \E i \in DOMAIN state.invaders : ~state.invaders[i].active
    /\ \E i, j \in DOMAIN state.invaders :
          /\ state.invaders[i].active /\ state.invaders[j].active
          /\ rowOf(i) # rowOf(j) /\ colOf(i) # colOf(j)
          /\ state.invaders[i].y > initialInvader(i).y
          /\ state.invaders[i].x # initialInvader(i).x

\* What is left of a game in state s, most significant first: the active
\* invaders, the way down of the lowest of them to the ship's row, the way of
\* the foremost of them to the wall the grid is heading for, and the updates
\* to the next sweep.
remaining(s) ==
    LET A  == {i \in DOMAIN s.invaders : s.invaders[i].active}
        ys == {s.invaders[i].y : i \in A}
        xs == {s.invaderDirection * s.invaders[i].x : i \in A}
    IN  IF A = {} THEN <<0, 0, 0, 0>>
        ELSE LET low  == CHOOSE y \in ys : \A z \in ys : y >= z
                 fore == s.invaderDirection * (CHOOSE x \in xs : \A z \in xs : x >= z)
             IN  <<Cardinality(A),
                   s.ship.y - PX(INVASION_MARGIN) - low,
                   IF s.invaderDirection = 1
                   THEN PX(CANVAS_WIDTH - INVADER_WIDTH) - fore
                   ELSE fore,
                   SWEEP_PERIOD - (s.tick % SWEEP_PERIOD)>>

\* The lexicographic order on what is left of a game.
lessLeft(a, b) ==
    \E k \in 1..4 : a[k] < b[k] /\ \A l \in 1..(k - 1) : a[l] = b[l]

\* C38: every game terminates.  Every update of a game that does not end it
\* leaves less of the game, whatever the player does: fewer active invaders,
\* or the lowest one nearer to the ship's row, or the foremost one nearer to
\* the wall, or the next sweep nearer; while the game is on all four are
\* positive.  Hence, if update() keeps being called, a game that is not over
\* is over eventually; a start() begins another game, so this is said of the
\* runs in which start() is not called for ever again.
C38_EveryGameEnds ==
    /\ [][ticked /\ ~state'.gameOver => lessLeft(remaining(state'), remaining(state))]_vars
    /\ [](~state.gameOver => \A k \in 1..4 : remaining(state)[k] > 0)
    /\ ([]<><<ticked>>_vars /\ <>[][loops' # loops + 1]_vars
           => (~state.gameOver ~> state.gameOver))

\* C38 witness: a game in which the player did nothing and lost no life has
\* ended with the grid at the ship's row, after wall turns and descents.
C38_Witness ==
    /\ script = "idle"
    /\ state.gameOver /\ ~state.won /\ state.lives = INITIAL_LIVES
    /\ shots = 0 /\ state.score = 0
    /\ state.tick > SWEEP_PERIOD

\* C39: once getOrCreateWallet() has been called the wallet identity is
\* stable as long as importWallet is not called: every call, in this page or after a reload, returns the same public
\* key (so a contract wrapper signs with the key it built its transaction
\* for), the stored secret is the cached one, of which the cached public key
\* is derived, at most one keypair is generated, and the funded flag, cached
\* and stored, never goes from true back to false.
C39_WalletIsStable ==
    /\ [](~wallet.imported =>
          /\ Cardinality(wallet.returned) <= 1
          /\ wallet.generated <= 1
          /\ \A p \in wallet.signed : p[1] = publicKey(p[2])
          /\ wallet.cached # <<>> =>
                /\ wallet.secret = <<wallet.cached[1].secretKey>>
                /\ wallet.cached[1].publicKey = publicKey(wallet.cached[1].secretKey)
                /\ wallet.returned = {wallet.cached[1].publicKey}
                /\ wallet.cached[1].funded = wallet.funded)
    /\ [][~wallet'.imported /\ wallet.returned # {} =>
            /\ wallet.funded => wallet'.funded
            /\ wallet.cached # <<>> /\ wallet.cached[1].funded /\ wallet'.cached # <<>>
                  => wallet'.cached[1].funded
            /\ wallet'.secret = wallet.secret]_vars

\* C39 witness: a keypair was generated, one ensureWalletFunded() has funded
\* the wallet while another is still looking the account up, a wrapper has
\* signed its transaction and another has built one.
C39_Witness ==
    /\ wallet.generated = 1
    /\ wallet.cached # <<>> /\ wallet.cached[1].funded
    /\ ~wallet.imported
    /\ Len(wallet.calls) = 1 /\ wallet.calls[1].await = "account"
    /\ wallet.secret = <<2>>
    /\ wallet.signed # {} /\ wallet.wrappers # <<>>

=============================================================================
